---- MODULE Spec2Model ----
(***************************************************************************)
(* RAPydity (src/RAPydity.py): the roster store (_read_existing_csv,       *)
(* _write_csv), the directory client's enrollment cache and student lookup *)
(* (CanvasAPI.get_enrollments, find_student_canvas_id,                     *)
(* verify_student_enrollments), the reconcile pass                         *)
(* (RAPReader.update_csv_from_raps), the paginated fetch                   *)
(* (CanvasAPI.get_paginated_results) and the batch appliers                *)
(* (RAPReaderGUI.apply_extra_time, just_do_it) with the client calls they  *)
(* make (get_assignment_time_limit, post_extra_time).                      *)
(*                                                                         *)
(* Python strings are TLA+ strings, Python's None is the value None, a     *)
(* dict is the sequence of its values in insertion order, and a CSV file   *)
(* is the sequence of its data rows, each row a record of cells (strings). *)
(***************************************************************************)
EXTENDS Naturals, Sequences, FiniteSets, TLC

(***************************************************************************)
(* Bounds of the model.                                                    *)
(***************************************************************************)
\* longest enrollment list a fetch returns
MaxEnroll == 2
\* longest enrollment list the lookup is tried on
MaxResolveLen == 3
\* most records one extraction yields
MaxExtracted == 2
\* most records of a roster handed to the store's round trip
MaxRoster == 2
\* largest integer int() is asked to parse
MaxMinutes == 40
\* most leading zeros of an integer cell
MaxZeros == 1
\* the fetch and call counters saturate here
CounterCap == 2

None == "<None>"

Courses == {"A", "B"}
StudentNumbers == {"1", "2"}

SeqsUpTo(S, n) == UNION {[1..k -> S] : k \in 0..n}
Min(a, b) == IF a < b THEN a ELSE b

(***************************************************************************)
(* str(int) and int(str) on non-negative integers.                         *)
(***************************************************************************)
Digit(d) ==
    CASE d = 0 -> "0" [] d = 1 -> "1" [] d = 2 -> "2" [] d = 3 -> "3"
      [] d = 4 -> "4" [] d = 5 -> "5" [] d = 6 -> "6" [] d = 7 -> "7"
      [] d = 8 -> "8" [] d = 9 -> "9"

RECURSIVE IntToStr(_)
IntToStr(n) == IF n < 10 THEN Digit(n) ELSE IntToStr(n \div 10) \o Digit(n % 10)

RECURSIVE Zeros(_)
Zeros(z) == IF z = 0 THEN "" ELSE "0" \o Zeros(z - 1)

\* int(s) succeeds on a string of decimal digits (leading zeros allowed)
IsInt(s) == \E z \in 0..MaxZeros, n \in 0..MaxMinutes : Zeros(z) \o IntToStr(n) = s
StrToInt(s) == CHOOSE n \in 0..MaxMinutes : \E z \in 0..MaxZeros : Zeros(z) \o IntToStr(n) = s

(***************************************************************************)
(* Student (dataclass) and the dict students_by_number.                    *)
(***************************************************************************)
Student(name, surname, student_number, extra_time_per_hour, canvas_id) ==
    [name |-> name, surname |-> surname, student_number |-> student_number,
     extra_time_per_hour |-> extra_time_per_hour, canvas_id |-> canvas_id]

Keys(d) == {d[i].student_number : i \in DOMAIN d}
UniqueKeys(d) == \A i, j \in DOMAIN d : d[i].student_number = d[j].student_number => i = j

\* d[k] = v on a dict: an existing key keeps its place and takes the new value
DictSet_Append(d, k, v) == Append(d, v)
DictSet(d, k, v) ==
    IF k \in Keys(d)
    THEN [i \in DOMAIN d |-> IF d[i].student_number = k THEN v ELSE d[i]]
    ELSE Append(d, v)

(***************************************************************************)
(* The roster file: exists (the path exists), header (the header line has  *)
(* been written), rows (the data rows, top to bottom).                     *)
(***************************************************************************)
Row(name, surname, student_number, extra_time_per_hour, canvas_id) ==
    [name |-> name, surname |-> surname, student_number |-> student_number,
     extra_time_per_hour |-> extra_time_per_hour, canvas_id |-> canvas_id]

NoFile == [exists |-> FALSE, header |-> FALSE, rows |-> <<>>]
File(rows) == [exists |-> TRUE, header |-> TRUE, rows |-> rows]

\* csv.DictWriter.writerow(vars(student)): None is written as the empty cell
RowOf(s) ==
    Row(s.name, s.surname, s.student_number, IntToStr(s.extra_time_per_hour),
        IF s.canvas_id = None THEN "" ELSE s.canvas_id)

WriteCsv(students) == File([i \in DOMAIN students |-> RowOf(students[i])])

\* the Student of one row; int() raises on a cell that is no integer
RowRaises(row) == ~IsInt(row.extra_time_per_hour)
StudentOfRow(row) ==
    Student(row.name, row.surname, row.student_number,
            StrToInt(row.extra_time_per_hour), row.canvas_id)

RECURSIVE ReadRows(_, _)
ReadRows(rows, students) ==
    IF rows = <<>> THEN students
    ELSE ReadRows(Tail(rows),
                  DictSet(students, Head(rows).student_number, StudentOfRow(Head(rows))))

\* _read_existing_csv: a missing file is the empty dict
ReadRaises_Missing(file) == ~file.exists \/ \E i \in DOMAIN file.rows : RowRaises(file.rows[i])
ReadRaises(file) == file.exists /\ \E i \in DOMAIN file.rows : RowRaises(file.rows[i])
ReadExistingCsv(file) == IF file.exists THEN ReadRows(file.rows, <<>>) ELSE <<>>

(***************************************************************************)
(* The directory client: one enrollment as the API returns it.  has_user   *)
(* says whether the entry carries a 'user' object; sis_user_id is None     *)
(* when the user object has none.                                          *)
(***************************************************************************)
Enrollment(id, sis_user_id) == [has_user |-> TRUE, id |-> id, sis_user_id |-> sis_user_id]
NoUserEnrollment == [has_user |-> FALSE, id |-> 0, sis_user_id |-> None]

\* enrollment.get('user', {}).get('sis_user_id')
UserSis(e) == IF e.has_user THEN e.sis_user_id ELSE None

\* user.get('sis_user_id') == 'c' + str(student_number)
SisMatches_AnyCase(sis, student_number) ==
    sis \in {"c" \o student_number, "C" \o student_number}
SisMatches(sis, student_number) == sis = "c" \o student_number

\* find_student_canvas_id over the list get_enrollments returned
RECURSIVE FindStudentCanvasId(_, _)
FindStudentCanvasId(enrollments, student_number) ==
    IF enrollments = <<>> THEN None
    ELSE IF SisMatches(UserSis(Head(enrollments)), student_number)
         THEN IntToStr(Head(enrollments).id)
         ELSE FindStudentCanvasId(Tail(enrollments), student_number)

\* verify_student_enrollments: e['user']['id'] raises KeyError on an entry without a user
VerifyRaises(enrollments) == \E i \in DOMAIN enrollments : ~enrollments[i].has_user
EnrolledIds(enrollments) == {IntToStr(enrollments[i].id) : i \in DOMAIN enrollments}
RECURSIVE KeepEnrolled(_, _)
KeepEnrolled(student_ids, enrolled) ==
    IF student_ids = <<>> THEN <<>>
    ELSE IF Head(student_ids) \in enrolled
         THEN <<Head(student_ids)>> \o KeepEnrolled(Tail(student_ids), enrolled)
         ELSE KeepEnrolled(Tail(student_ids), enrolled)
VerifyStudentEnrollments(enrollments, student_ids) ==
    KeepEnrolled(student_ids, EnrolledIds(enrollments))

(***************************************************************************)
(* Inputs: what the remote directory may answer, what an extraction may    *)
(* yield, the roster files a pass may find.                                *)
(***************************************************************************)
\* the answers of a fetch of a course's enrollments during a pass; <<>> is also what a
\* failed fetch gives
PassEntries == {Enrollment(7, "c1"), Enrollment(9, "c2")}
PassFetchResults == SeqsUpTo(PassEntries, MaxEnroll)

\* the answers of a fetch when the client is called on its own
DirEntries == {Enrollment(7, "c1"), Enrollment(9, "c2"), NoUserEnrollment}
DirFetchResults == SeqsUpTo(DirEntries, MaxEnroll)

\* the enrollment lists the lookup is tried on
ResolveEntries ==
    {Enrollment(id, sis) : id \in {7, 8}, sis \in {"c1", "C1", "c2", "1", None}}
        \cup {NoUserEnrollment}
ResolveLists == SeqsUpTo(ResolveEntries, MaxResolveLen)

\* rosters handed to the store: unique keys, canvas_id absent, empty or present
StoreStudents ==
    {Student("Ann", "LEE", n, e, c) : n \in StudentNumbers, e \in {0, 10}, c \in {None, "", "7"}}
StoreRosters == {r \in SeqsUpTo(StoreStudents, MaxRoster) : UniqueKeys(r)}

VARIABLES
    courses,             \* course_manager.courses: the configured course ids
    current_course,      \* reader.current_course and canvas_api.course_id (set together)
    enrollments_cache,   \* canvas_api._enrollments_cache: course -> [present, list]
    files,               \* the roster file extra_time_<course>.csv of each course
    pc,                  \* where update_csv_from_raps stands
    students_by_number,  \* its local dict
    pending,             \* the extracted records the loop has not reached yet
    new_count,           \* its local counter
    counting_handler,    \* the temporary CountingHandler is attached to the logger
    to_write,            \* _write_csv: the students not yet written
    fetches,             \* history: remote fetches of each course's enrollments, this process
    first_fetched,       \* history: the list the first fetch of each course returned
    calls,               \* history: get_enrollments calls per course, this process
    used,                \* history: the list the latest get_enrollments call returned
    dir_result,          \* the value the latest call made to the client on its own returned
    existing,            \* history: the dict as _read_existing_csv returned it
    extracted,           \* history: all records this pass extracted
    file_before,         \* history: the roster file when the latest pass began
    snapshot,            \* history: the file the latest _write_csv call set out to write
    rewritten,           \* history: the courses whose roster file a pass has opened for writing
    writes,              \* history: _write_csv calls of this pass
    lookups,             \* history: the find_student_canvas_id calls of this pass
    last,                \* history: the latest completed pass of this process
    outcome,             \* history: how the latest update_csv_from_raps call ended
    read_failed,         \* history: reading the RAP CSV file of this pass failed
    attached,            \* history: the (course, canvas_id) pairs passes of this process attached
    rt_roster, rt_file, rt_loaded, rt_pc,          \* the store's round trip
    rs_enrollments, rs_number, rs_result, rs_pc,   \* the lookup on its own
    pg_remote,           \* get_paginated_results: the responses the remote gives, page by page
    pg_at,               \* the page whose response is r (0 before the first request)
    pg_results,          \* its local list results
    pg_error_logged,     \* logger.error was called in its except clause
    pg_failed,           \* history: a request of this call failed
    pg_pc,               \* where get_paginated_results stands
    b_kind,              \* the batch applier: apply_extra_time or just_do_it
    b_students,          \* its students (the roster as _read_existing_csv returned it)
    b_enrollments,       \* what get_enrollments returns for the course during the batch
    b_selected,          \* selected_assignments / assignments: the batch, in order
    b_queue,             \* the assignments the current loop has not reached yet
    b_quizzes,           \* just_do_it: its local list quizzes
    b_active_ids,        \* active_ids
    b_time_limit,        \* time_limit of the assignment at hand
    b_adjustments,       \* adjustments of the assignment at hand
    b_success_count,     \* just_do_it: success_count
    b_pc,                \* where the batch applier stands
    b_verifies,          \* history: verify_student_enrollments calls of this batch
    b_log,               \* history: one entry per assignment the loop has dealt with
    b_raised,            \* history: the client operation whose exception reached the applier
    b_filter_seen,       \* history: just_do_it: the time limits its filter loop got
    b_ended,             \* history: how the batch ended
    ex_e, ex_t, ex_mins, ex_pc,                    \* the extra time of one student on its own
    tb_readable,         \* extract_students_from_rap_csv: the RAP CSV file can be read
    tb_rows,             \* the data rows of the RAP CSV file
    tb_pending,          \* the rows the reader has not given yet
    tb_students,         \* its local dict students
    tb_emitted,          \* history: what became of each row, in row order
    tb_error_logged,     \* logger.error was called in its except clause
    tb_pc,               \* where extract_students_from_rap_csv stands
    tx_readable,         \* extract_student_info_from_pdf: the PDF can be read
    tx_pages,            \* the text of its pages, as page.extract_text() gives it
    tx_result,           \* what it returned: <<>> for None, <<student>> for a Student
    tx_text,             \* its local text: the pages, whitespace normalised, joined
    tx_error_logged,     \* logger.error was called in its except clause
    tx_pc,               \* where extract_student_info_from_pdf stands
    lc_remote,           \* list_courses: the courses get_paginated_results gives
    lc_result,           \* what it returned
    lc_error_logged,     \* logger.error was called in its except clause
    lc_pc,               \* where list_courses stands
    la_remote,           \* list_assignments: the assignments the remote answers
    la_published_only,   \* its argument published_only
    la_result,           \* what it returned
    la_logged,           \* the numbers of published assignments its info log gave
    la_pc                \* where list_assignments stands

processVars == <<courses, current_course, enrollments_cache>>
cacheHistory == <<fetches, first_fetched, calls, used, dir_result>>
passVars == <<files, pc, students_by_number, pending, new_count,
              counting_handler, to_write>>
passHistory == <<existing, extracted, file_before, snapshot, rewritten, writes, lookups,
                 last, outcome, read_failed, attached>>
storeVars == <<rt_roster, rt_file, rt_loaded, rt_pc>>
resolveVars == <<rs_enrollments, rs_number, rs_result, rs_pc>>
pageVars == <<pg_remote, pg_at, pg_results, pg_error_logged, pg_failed, pg_pc>>
batchVars == <<b_kind, b_students, b_enrollments, b_selected, b_queue, b_quizzes,
               b_active_ids, b_time_limit, b_adjustments, b_success_count, b_pc,
               b_verifies, b_log, b_raised, b_filter_seen, b_ended>>
extraVars == <<ex_e, ex_t, ex_mins, ex_pc>>
tabVars == <<tb_readable, tb_rows, tb_pending, tb_students, tb_emitted, tb_error_logged,
             tb_pc>>
textVars == <<tx_readable, tx_pages, tx_text, tx_result, tx_error_logged, tx_pc>>
courseVars == <<lc_remote, lc_result, lc_error_logged, lc_pc>>
assignVars == <<la_remote, la_published_only, la_result, la_logged, la_pc>>
extractVars == <<tabVars, textVars, courseVars, assignVars>>
vars == <<processVars, cacheHistory, passVars, passHistory, storeVars, resolveVars,
          pageVars, batchVars, extraVars, extractVars>>

(***************************************************************************)
(* The state of a process that has just started (RAPReader.__init__,       *)
(* CanvasAPI.__init__): no course selected, nothing cached.                *)
(***************************************************************************)
NoPass == [valid |-> FALSE, course |-> None, extracted |-> <<>>,
           roster |-> <<>>, new_count |-> 0, writes |-> 0]
Outcome(kind, course) == [kind |-> kind, course |-> course]
NotCached == [present |-> FALSE, list |-> <<>>]

ProcessStart ==
    /\ current_course = None
    /\ enrollments_cache = [c \in Courses |-> NotCached]
    /\ fetches = [c \in Courses |-> 0]
    /\ first_fetched = [c \in Courses |-> <<>>]
    /\ calls = [c \in Courses |-> 0]
    /\ used = [course |-> None, list |-> <<>>]
    /\ dir_result = [op |-> "none", raised |-> FALSE, value |-> <<>>]

PassIdle ==
    /\ pc = "idle"
    /\ students_by_number = <<>>
    /\ pending = <<>>
    /\ new_count = 0
    /\ counting_handler = FALSE
    /\ to_write = <<>>
    /\ existing = <<>>
    /\ extracted = <<>>
    /\ file_before = NoFile
    /\ snapshot = NoFile
    /\ rewritten = {}
    /\ writes = 0
    /\ lookups = <<>>
    /\ last = NoPass
    /\ outcome = Outcome("none", None)
    /\ read_failed = FALSE
    /\ attached = {}

StoreIdle == rt_roster = <<>> /\ rt_file = NoFile /\ rt_loaded = <<>> /\ rt_pc = "off"
ResolveIdle == rs_enrollments = <<>> /\ rs_number = None /\ rs_result = None /\ rs_pc = "off"

\* an absent time limit (None) and a time limit of so many minutes
NoTimeLimit == [present |-> FALSE, minutes |-> 0]
TimeLimit(minutes) == [present |-> TRUE, minutes |-> minutes]

PagesIdle ==
    /\ pg_remote = <<>> /\ pg_at = 0 /\ pg_results = <<>>
    /\ pg_error_logged = FALSE /\ pg_failed = FALSE /\ pg_pc = "off"
BatchIdle ==
    /\ b_kind = "none" /\ b_students = <<>> /\ b_enrollments = <<>>
    /\ b_selected = <<>> /\ b_queue = <<>> /\ b_quizzes = <<>>
    /\ b_active_ids = <<>> /\ b_time_limit = NoTimeLimit /\ b_adjustments = <<>>
    /\ b_success_count = 0 /\ b_pc = "off" /\ b_verifies = 0 /\ b_log = <<>>
    /\ b_raised = "none" /\ b_filter_seen = <<>> /\ b_ended = "no"
ExtraIdle == ex_e = 0 /\ ex_t = 0 /\ ex_mins = 0 /\ ex_pc = "off"
TabularIdle ==
    /\ tb_readable = TRUE /\ tb_rows = <<>> /\ tb_pending = <<>> /\ tb_students = <<>>
    /\ tb_emitted = <<>> /\ tb_error_logged = FALSE /\ tb_pc = "off"
TextIdle ==
    /\ tx_readable = TRUE /\ tx_pages = <<>> /\ tx_text = <<>> /\ tx_result = <<>>
    /\ tx_error_logged = FALSE /\ tx_pc = "off"
CoursesIdle ==
    lc_remote = <<>> /\ lc_result = <<>> /\ lc_error_logged = FALSE /\ lc_pc = "off"
AssignmentsIdle ==
    /\ la_remote = <<>> /\ la_published_only = TRUE /\ la_result = <<>>
    /\ la_logged = <<>> /\ la_pc = "off"
ExtractIdle == TabularIdle /\ TextIdle /\ CoursesIdle /\ AssignmentsIdle

(***************************************************************************)
(* The store's round trip: _write_csv(R, path), then                       *)
(* _read_existing_csv(path).                                               *)
(***************************************************************************)
StoreInit ==
    /\ courses = {} /\ ProcessStart /\ PagesIdle /\ BatchIdle /\ ExtraIdle
    /\ ExtractIdle
    /\ PassIdle /\ ResolveIdle
    /\ files = [c \in Courses |-> NoFile]
    /\ rt_roster \in StoreRosters
    /\ rt_file = NoFile /\ rt_loaded = <<>> /\ rt_pc = "start"

StoreRewrite ==
    /\ rt_pc = "start"
    /\ rt_file' = WriteCsv(rt_roster)
    /\ rt_pc' = "written"
    /\ UNCHANGED <<rt_roster, rt_loaded, processVars, cacheHistory, passVars, passHistory,
                   resolveVars, pageVars,
                   batchVars, extraVars,
                   extractVars>>

StoreLoad ==
    /\ rt_pc = "written"
    /\ ~ReadRaises(rt_file)
    /\ rt_loaded' = ReadExistingCsv(rt_file)
    /\ rt_pc' = "loaded"
    /\ UNCHANGED <<rt_roster, rt_file, processVars, cacheHistory, passVars, passHistory,
                   resolveVars, pageVars,
                   batchVars, extraVars,
                   extractVars>>

StoreNext == StoreRewrite \/ StoreLoad
SpecStore == StoreInit /\ [][StoreNext]_vars

(***************************************************************************)
(* find_student_canvas_id on its own: any enrollment list, any number.     *)
(***************************************************************************)
ResolveInit ==
    /\ courses = {} /\ ProcessStart /\ PagesIdle /\ BatchIdle /\ ExtraIdle
    /\ ExtractIdle
    /\ PassIdle /\ StoreIdle
    /\ files = [c \in Courses |-> NoFile]
    /\ rs_enrollments \in ResolveLists
    /\ rs_number \in StudentNumbers
    /\ rs_result = None /\ rs_pc = "start"

ResolveCall ==
    /\ rs_pc = "start"
    /\ rs_result' = FindStudentCanvasId(rs_enrollments, rs_number)
    /\ rs_pc' = "done"
    /\ UNCHANGED <<rs_enrollments, rs_number, processVars, cacheHistory, passVars,
                   passHistory, storeVars, pageVars,
                   batchVars, extraVars,
                   extractVars>>

ResolveNext == ResolveCall
SpecResolve == ResolveInit /\ [][ResolveNext]_vars

(***************************************************************************)
(* get_enrollments(course_id): the remote list is fetched when the course  *)
(* is no key of the cache, and stored; fetched is what the remote answers  *)
(* at that moment (<<>> when the request fails).                           *)
(***************************************************************************)
NeedsFetch_Always(course_id) == TRUE
NeedsFetch_WhenEmpty(course_id) ==
    ~enrollments_cache[course_id].present \/ enrollments_cache[course_id].list = <<>>
NeedsFetch(course_id) == ~enrollments_cache[course_id].present

GetEnrollments(course_id, fetched) ==
    IF NeedsFetch(course_id) THEN fetched ELSE enrollments_cache[course_id].list

CacheAfter(course_id, fetched) ==
    IF NeedsFetch(course_id)
    THEN [enrollments_cache EXCEPT ![course_id] = [present |-> TRUE, list |-> fetched]]
    ELSE enrollments_cache

\* the answers worth distinguishing: one when nothing is fetched
Answers(course_id, results) ==
    IF course_id \notin Courses THEN {}
    ELSE IF NeedsFetch(course_id) THEN results ELSE {<<>>}

\* the history of one get_enrollments call
RecordCall(course_id, fetched) ==
    /\ fetches' = IF NeedsFetch(course_id)
                  THEN [fetches EXCEPT ![course_id] = Min(@ + 1, CounterCap)]
                  ELSE fetches
    /\ first_fetched' = IF NeedsFetch(course_id) /\ fetches[course_id] = 0
                        THEN [first_fetched EXCEPT ![course_id] = fetched]
                        ELSE first_fetched
    /\ calls' = [calls EXCEPT ![course_id] = Min(@ + 1, CounterCap)]
    /\ used' = [course |-> course_id, list |-> GetEnrollments(course_id, fetched)]

(***************************************************************************)
(* The directory client under any sequence of calls: the user selects a    *)
(* course, a lookup or an enrollment verification is made for it, the      *)
(* process ends and a new one starts.                                      *)
(***************************************************************************)
VerifyIdLists == SeqsUpTo({"7", "8"}, 2)

DirInit ==
    /\ courses = Courses /\ ProcessStart /\ PagesIdle /\ BatchIdle /\ ExtraIdle
    /\ ExtractIdle
    /\ PassIdle /\ StoreIdle /\ ResolveIdle
    /\ files = [c \in Courses |-> NoFile]

\* _on_course_selected
SelectCourse(c) ==
    /\ pc = "idle"
    /\ c \in courses
    /\ current_course' = c
    /\ UNCHANGED <<courses, enrollments_cache, cacheHistory, passVars, passHistory,
                   storeVars, resolveVars,
                   pageVars, batchVars, extraVars,
                   extractVars>>

\* find_student_canvas_id(course.course_id, student_number)
DirFind(student_number, fetched) ==
    /\ pc = "idle"
    /\ current_course # None
    /\ dir_result' = [op |-> "find", raised |-> FALSE,
                      value |-> <<FindStudentCanvasId(
                                    GetEnrollments(current_course, fetched), student_number)>>]
    /\ enrollments_cache' = CacheAfter(current_course, fetched)
    /\ RecordCall(current_course, fetched)
    /\ UNCHANGED <<courses, current_course, passVars, passHistory, storeVars, resolveVars,
                   pageVars, batchVars, extraVars,
                   extractVars>>

\* verify_student_enrollments(student_ids), for canvas_api.course_id
DirVerify(student_ids, fetched) ==
    /\ pc = "idle"
    /\ current_course # None
    /\ LET enrollments == GetEnrollments(current_course, fetched) IN
         dir_result' = IF VerifyRaises(enrollments)
                       THEN [op |-> "verify", raised |-> TRUE, value |-> <<>>]
                       ELSE [op |-> "verify", raised |-> FALSE,
                             value |-> VerifyStudentEnrollments(enrollments, student_ids)]
    /\ enrollments_cache' = CacheAfter(current_course, fetched)
    /\ RecordCall(current_course, fetched)
    /\ UNCHANGED <<courses, current_course, passVars, passHistory, storeVars, resolveVars,
                   pageVars, batchVars, extraVars,
                   extractVars>>

WritePhases == {"write_header", "write_rows"}

\* the process ends (exit, crash, kill) and a new one starts: memory is lost, files stay
Restart ==
    /\ current_course' = None
    /\ enrollments_cache' = [c \in Courses |-> NotCached]
    /\ fetches' = [c \in Courses |-> 0]
    /\ first_fetched' = [c \in Courses |-> <<>>]
    /\ calls' = [c \in Courses |-> 0]
    /\ used' = [course |-> None, list |-> <<>>]
    /\ dir_result' = [op |-> "none", raised |-> FALSE, value |-> <<>>]
    /\ pc' = "idle" /\ students_by_number' = <<>> /\ pending' = <<>>
    /\ new_count' = 0 /\ counting_handler' = FALSE /\ to_write' = <<>>
    /\ existing' = <<>> /\ extracted' = <<>> /\ writes' = 0
    /\ lookups' = <<>> /\ last' = NoPass /\ read_failed' = FALSE
    /\ attached' = {}
    /\ outcome' = IF pc \in WritePhases
                  THEN Outcome("crashed_in_write", current_course)
                  ELSE Outcome("none", None)
    /\ file_before' = IF pc \in WritePhases THEN file_before ELSE NoFile
    /\ snapshot' = IF pc \in WritePhases THEN snapshot ELSE NoFile
    /\ UNCHANGED <<courses, files, rewritten, storeVars, resolveVars,
                   pageVars, batchVars, extraVars,
                   extractVars>>

DirNext ==
    \/ \E c \in Courses : SelectCourse(c)
    \/ \E n \in StudentNumbers : \E f \in Answers(current_course, DirFetchResults) : DirFind(n, f)
    \/ \E ids \in VerifyIdLists : \E f \in Answers(current_course, DirFetchResults) : DirVerify(ids, f)
    \/ Restart
SpecDir == DirInit /\ [][DirNext]_vars

(***************************************************************************)
(* update_csv_from_raps(source): the reconcile pass.  Its first part (the  *)
(* checks, _read_existing_csv, the extraction) is one step; the loop takes *)
(* one step per extracted record; _write_csv takes one step to open (and   *)
(* truncate) the file, one for the header and one per row, so that a       *)
(* process that ends in between leaves the file as it then is.             *)
(***************************************************************************)
ExtraValues == {10}
ExtractedStudents ==
    {Student("Jane", "DOE", n, e, None) : n \in StudentNumbers, e \in ExtraValues}
\* extract_students_from_rap_csv returns a dict: its keys are unique
ExtractedCsv == {x \in SeqsUpTo(ExtractedStudents, MaxExtracted) : UniqueKeys(x)}
\* one extract_student_info_from_pdf result per PDF: the same student may recur
ExtractedPdf == SeqsUpTo(ExtractedStudents, MaxExtracted)
Extractions(src) == IF src = "csv" THEN ExtractedCsv ELSE ExtractedPdf

\* the roster files a first pass may find: none, an empty roster, a roster whose
\* record has no canvas_id, a hand-edited file with a repeated student_number
\* and a zero-padded number, a file whose extra_time_per_hour is no integer
InitFiles ==
    {NoFile,
     File(<<>>),
     File(<<Row("Bob", "KIM", "2", "5", "")>>),
     File(<<Row("Ann", "LEE", "1", "5", ""), Row("Bob", "KIM", "2", "05", "9"),
            Row("Ann", "LEA", "1", "15", "7")>>),
     File(<<Row("Ann", "LEE", "1", "x", "7")>>)}

MainCourses == {"A"}

passLocals == <<students_by_number, pending, new_count, counting_handler, to_write>>
passRecord == <<existing, extracted, file_before, snapshot, rewritten, writes, lookups, last>>

Init ==
    /\ courses = MainCourses /\ ProcessStart /\ PagesIdle /\ BatchIdle /\ ExtraIdle
    /\ ExtractIdle
    /\ PassIdle /\ StoreIdle /\ ResolveIdle
    /\ files \in [Courses -> InitFiles]
    /\ \A c \in Courses \ courses : files[c] = NoFile

\* the finally clause: `self.logger.removeHandler(counting_handler)`
AfterFinally_Kept(handler) == handler
AfterFinally(handler) == FALSE

\* `student_number not in students_by_number`
AlreadyPresent_Never(students, student_number) == FALSE
AlreadyPresent(students, student_number) == student_number \in Keys(students)

\* `if canvas_id:`
ShouldInsert_Always(canvas_id) == TRUE
ShouldInsert(canvas_id) == canvas_id # None /\ canvas_id # ""

\* list(students_by_number.values()), the argument of _write_csv
SnapshotToWrite_NewOnly(students) == SubSeq(students, Len(existing) + 1, Len(students))
SnapshotToWrite(students) == students

\* `if not self.current_course: return`
UpdateNoCourse ==
    /\ pc = "idle"
    /\ current_course = None
    /\ outcome' = Outcome("no_course", None)
    /\ UNCHANGED <<processVars, cacheHistory, files, pc, passLocals, passRecord, read_failed,
                   attached,
                   storeVars, resolveVars,
                   pageVars, batchVars, extraVars,
                   extractVars>>

\* _read_existing_csv raises: the finally clause removes the handler, the exception
\* leaves the method
UpdateLoadRaises ==
    /\ pc = "idle"
    /\ current_course # None
    /\ ReadRaises(files[current_course])
    /\ outcome' = Outcome("load_raised", current_course)
    /\ counting_handler' = AfterFinally(TRUE)
    /\ UNCHANGED <<processVars, cacheHistory, files, pc, students_by_number, pending,
                   new_count, to_write, passRecord, read_failed,
                   attached,
                   storeVars, resolveVars,
                   pageVars, batchVars, extraVars,
                   extractVars>>

\* the RAP CSV file is not configured or not found, or no PDF folder is configured
UpdateNoSource ==
    /\ pc = "idle"
    /\ current_course # None
    /\ ~ReadRaises(files[current_course])
    /\ outcome' = Outcome("no_source", current_course)
    /\ counting_handler' = AfterFinally(TRUE)
    /\ UNCHANGED <<processVars, cacheHistory, files, pc, students_by_number, pending,
                   new_count, to_write, passRecord, read_failed,
                   attached,
                   storeVars, resolveVars,
                   pageVars, batchVars, extraVars,
                   extractVars>>

\* the existing roster is loaded and the records are extracted from the source
\* ("csv": the RAP CSV file, "pdf": the PDFs of the folder); failed: the RAP CSV
\* file is there but cannot be opened, extract_students_from_rap_csv logs the
\* error and returns its empty dict
UpdateBegin(src, records, failed) ==
    /\ records \in Extractions(src)
    /\ failed => src = "csv" /\ records = <<>>
    /\ read_failed' = failed
    /\ pc = "idle"
    /\ current_course # None
    /\ ~ReadRaises(files[current_course])
    /\ pc' = "loop"
    /\ counting_handler' = TRUE
    /\ students_by_number' = ReadExistingCsv(files[current_course])
    /\ existing' = ReadExistingCsv(files[current_course])
    /\ file_before' = files[current_course]
    /\ new_count' = 0
    /\ pending' = records
    /\ extracted' = records
    /\ to_write' = <<>>
    /\ writes' = 0
    /\ lookups' = <<>>
    /\ snapshot' = NoFile
    /\ outcome' = Outcome("running", current_course)
    /\ UNCHANGED <<processVars, cacheHistory, files, rewritten, last, attached,
                   storeVars, resolveVars,
                   pageVars, batchVars, extraVars,
                   extractVars>>

\* one round of the loop over the extracted records
ProcessRecord(fetched) ==
    /\ pc = "loop"
    /\ pending # <<>>
    /\ LET student == Head(pending)
           number == student.student_number
           canvas_id == FindStudentCanvasId(GetEnrollments(current_course, fetched), number)
       IN  IF ~AlreadyPresent(students_by_number, number)
           THEN /\ enrollments_cache' = CacheAfter(current_course, fetched)
                /\ RecordCall(current_course, fetched)
                /\ UNCHANGED dir_result
                /\ lookups' = Append(lookups, [course |-> current_course,
                                               student |-> student, result |-> canvas_id])
                /\ IF ShouldInsert(canvas_id)
                   THEN /\ students_by_number' =
                              DictSet(students_by_number, number,
                                      [student EXCEPT !.canvas_id = canvas_id])
                        /\ new_count' = new_count + 1
                        /\ attached' = attached \cup {[course |-> current_course,
                                                       canvas_id |-> canvas_id]}
                   ELSE UNCHANGED <<students_by_number, new_count, attached>>
           ELSE UNCHANGED <<enrollments_cache, cacheHistory, lookups, students_by_number,
                            new_count, attached>>
    /\ pending' = Tail(pending)
    /\ UNCHANGED <<courses, current_course, files, pc, counting_handler, to_write,
                   existing, extracted, file_before, snapshot, rewritten, writes, last,
                   outcome, read_failed, storeVars, resolveVars,
                   pageVars, batchVars, extraVars,
                   extractVars>>

\* _write_csv: open(csv_path, 'w') creates or truncates the file
WriteOpen ==
    /\ pc = "loop"
    /\ pending = <<>>
    /\ to_write' = SnapshotToWrite(students_by_number)
    /\ files' = [files EXCEPT ![current_course] =
                    [exists |-> TRUE, header |-> FALSE, rows |-> <<>>]]
    /\ snapshot' = WriteCsv(SnapshotToWrite(students_by_number))
    /\ rewritten' = rewritten \cup {current_course}
    /\ writes' = writes + 1
    /\ pc' = "write_header"
    /\ UNCHANGED <<processVars, cacheHistory, students_by_number, pending, new_count,
                   counting_handler, existing, extracted, file_before, lookups, last,
                   outcome, read_failed, attached, storeVars, resolveVars,
                   pageVars, batchVars, extraVars,
                   extractVars>>

\* writer.writeheader()
WriteHeader ==
    /\ pc = "write_header"
    /\ files' = [files EXCEPT ![current_course].header = TRUE]
    /\ pc' = "write_rows"
    /\ UNCHANGED <<processVars, cacheHistory, passLocals, passRecord, outcome,
                   read_failed, attached, storeVars, resolveVars,
                   pageVars, batchVars, extraVars,
                   extractVars>>

\* writer.writerow(vars(student))
WriteRow ==
    /\ pc = "write_rows"
    /\ to_write # <<>>
    /\ files' = [files EXCEPT ![current_course].rows = Append(@, RowOf(Head(to_write)))]
    /\ to_write' = Tail(to_write)
    /\ UNCHANGED <<processVars, cacheHistory, pc, students_by_number, pending,
                   new_count, counting_handler, passRecord, outcome, read_failed,
                   attached, storeVars, resolveVars,
                   pageVars, batchVars, extraVars,
                   extractVars>>

\* the file is closed and the method returns through its finally clause
WriteClose ==
    /\ pc = "write_rows"
    /\ to_write = <<>>
    /\ last' = [valid |-> TRUE, course |-> current_course, extracted |-> extracted,
                roster |-> students_by_number, new_count |-> new_count, writes |-> writes]
    /\ outcome' = Outcome("done", current_course)
    /\ pc' = "idle"
    /\ counting_handler' = AfterFinally(counting_handler)
    /\ read_failed' = FALSE
    /\ students_by_number' = <<>>
    /\ pending' = <<>>
    /\ new_count' = 0
    /\ existing' = <<>>
    /\ extracted' = <<>>
    /\ writes' = 0
    /\ lookups' = <<>>
    /\ file_before' = NoFile
    /\ snapshot' = NoFile
    /\ UNCHANGED <<processVars, cacheHistory, files, to_write, rewritten, attached,
                   storeVars, resolveVars,
                   pageVars, batchVars, extraVars,
                   extractVars>>

Next ==
    \/ \E c \in Courses : SelectCourse(c)
    \/ UpdateNoCourse
    \/ UpdateLoadRaises
    \/ UpdateNoSource
    \/ \E src \in {"csv", "pdf"} : \E x \in ExtractedPdf : UpdateBegin(src, x, FALSE)
    \/ UpdateBegin("csv", <<>>, TRUE)
    \/ \E f \in Answers(current_course, PassFetchResults) : ProcessRecord(f)
    \/ WriteOpen
    \/ WriteHeader
    \/ WriteRow
    \/ WriteClose
    \/ Restart
Spec == Init /\ [][Next]_vars

(***************************************************************************)
(* get_paginated_results(url): one step per request.  The remote is the    *)
(* chain of its responses: response i carries the 'next' link to response  *)
(* i + 1.  A response is a page (status ok, a JSON list), an error status  *)
(* with a JSON object as body, an error status with a body that is no      *)
(* JSON, or none at all (requests.get raises).                             *)
(***************************************************************************)
MaxPages == 3

OkPage(items, has_next) == [kind |-> "ok", items |-> items, has_next |-> has_next]
\* an error status whose body is the JSON object {"errors": [...]}
ErrorJsonPage == [kind |-> "status_json", items |-> <<"errors">>, has_next |-> FALSE]
\* an error status whose body is no JSON
ErrorTextPage == [kind |-> "status_text", items |-> <<>>, has_next |-> FALSE]
\* requests.get raises (connection error, timeout)
NoResponse == [kind |-> "raise", items |-> <<>>, has_next |-> FALSE]

PageItems == {<<>>, <<"x">>, <<"y">>, <<"x", "y">>}
Responses ==
    {OkPage(i, n) : i \in PageItems, n \in BOOLEAN}
        \cup {ErrorJsonPage, ErrorTextPage, NoResponse}
\* the last response of a chain links to no further one
Remotes == {r \in SeqsUpTo(Responses, MaxPages) : r # <<>> /\ ~r[Len(r)].has_next}

RequestRaises(r) == r.kind = "raise"
\* `r.status_code == requests.codes.ok`
StatusOk(r) == r.kind = "ok"
\* r.json() raises on a body that is no JSON
JsonRaises(r) == r.kind = "status_text"
\* `'next' in r.links.keys()`
HasNext_Never(r) == FALSE
HasNext(r) == r.has_next

PagesInit ==
    /\ courses = {} /\ ProcessStart /\ BatchIdle /\ ExtraIdle
    /\ ExtractIdle
    /\ PassIdle /\ StoreIdle /\ ResolveIdle
    /\ files = [c \in Courses |-> NoFile]
    /\ pg_remote \in Remotes
    /\ pg_at = 0 /\ pg_results = <<>> /\ pg_error_logged = FALSE /\ pg_failed = FALSE
    /\ pg_pc = "start"

\* the first request and what follows it up to the loop
RequestFirst ==
    /\ pg_pc = "start"
    /\ LET r == pg_remote[1] IN
         /\ pg_at' = 1
         /\ pg_failed' = ~StatusOk(r)
         /\ IF RequestRaises(r)
            THEN pg_results' = pg_results /\ pg_error_logged' = TRUE /\ pg_pc' = "returned"
            ELSE IF StatusOk(r)
            THEN pg_results' = pg_results \o r.items /\ pg_error_logged' = FALSE
                 /\ pg_pc' = "loop"
            ELSE pg_results' = pg_results /\ pg_error_logged' = FALSE
                 /\ pg_pc' = "returned"
    /\ UNCHANGED <<pg_remote, processVars, cacheHistory, passVars, passHistory, storeVars,
                   resolveVars, batchVars, extraVars,
                   extractVars>>

\* one round of `while 'next' in r.links.keys()`
RequestNext ==
    /\ pg_pc = "loop"
    /\ HasNext(pg_remote[pg_at])
    /\ LET r == pg_remote[pg_at + 1] IN
         /\ pg_failed' = (pg_failed \/ ~StatusOk(r))
         /\ IF RequestRaises(r) \/ JsonRaises(r)
            THEN pg_results' = pg_results /\ pg_error_logged' = TRUE
                 /\ pg_at' = pg_at /\ pg_pc' = "returned"
            ELSE pg_results' = pg_results \o r.items /\ pg_error_logged' = pg_error_logged
                 /\ pg_at' = pg_at + 1 /\ pg_pc' = "loop"
    /\ UNCHANGED <<pg_remote, processVars, cacheHistory, passVars, passHistory, storeVars,
                   resolveVars, batchVars, extraVars,
                   extractVars>>

\* the loop ends: `return results`
PagesReturn ==
    /\ pg_pc = "loop"
    /\ ~HasNext(pg_remote[pg_at])
    /\ pg_pc' = "returned"
    /\ UNCHANGED <<pg_remote, pg_at, pg_results, pg_error_logged, pg_failed, processVars,
                   cacheHistory, passVars, passHistory, storeVars, resolveVars, batchVars,
                   extraVars,
                   extractVars>>

PagesNext == RequestFirst \/ RequestNext \/ PagesReturn
SpecPages == PagesInit /\ [][PagesNext]_vars /\ WF_vars(PagesNext)

(***************************************************************************)
(* The extra time of one student for one assignment:                       *)
(* int((student.extra_time_per_hour * time_limit) / 60 + 0.5).  The value  *)
(* of (e * t) / 60 + 0.5 is the fraction (2 * (e * t) + 60) / 120, and     *)
(* int() of a non-negative fraction is its integer part.                   *)
(***************************************************************************)
MaxBudget == 60

IntOf(numerator, denominator) == numerator \div denominator
ExtraMins_Truncate(e, t) == IntOf(e * t, 60)
ExtraMins(e, t) == IntOf(2 * (e * t) + 60, 120)

ExtraInit ==
    /\ courses = {} /\ ProcessStart /\ PagesIdle /\ BatchIdle
    /\ ExtractIdle
    /\ PassIdle /\ StoreIdle /\ ResolveIdle
    /\ files = [c \in Courses |-> NoFile]
    /\ ex_e \in 0..MaxMinutes
    /\ ex_t \in 0..MaxBudget
    /\ ex_mins = 0 /\ ex_pc = "start"

ExtraCompute ==
    /\ ex_pc = "start"
    /\ ex_mins' = ExtraMins(ex_e, ex_t)
    /\ ex_pc' = "done"
    /\ UNCHANGED <<ex_e, ex_t, processVars, cacheHistory, passVars, passHistory, storeVars,
                   resolveVars, pageVars, batchVars,
                   extractVars>>

ExtraNext == ExtraCompute
SpecExtra == ExtraInit /\ [][ExtraNext]_vars

(***************************************************************************)
(* The client's calls for one assignment.  The remote, as a call finds it: *)
(* how the assignment request ends (get), whether the assignment is a quiz *)
(* and carries a quiz_id, how the quiz request ends (quiz_get), the quiz's *)
(* time_limit, how the extensions request ends (post).  A request ends     *)
(* "ok", with an error "status", or it "raise"s.                           *)
(***************************************************************************)
AssignmentRemote(get, is_quiz, quiz_id, quiz_get, time_limit, post) ==
    [get |-> get, is_quiz |-> is_quiz, quiz_id |-> quiz_id, quiz_get |-> quiz_get,
     time_limit |-> time_limit, post |-> post]

Raised == [raised |-> TRUE, value |-> NoTimeLimit]
Returned(value) == [raised |-> FALSE, value |-> value]

\* get_assignment_time_limit(assignment_id)
GetAssignmentTimeLimit(remote) ==
    IF remote.get = "raise" THEN Raised
    ELSE IF remote.get # "ok" THEN Returned(NoTimeLimit)
    ELSE IF ~remote.is_quiz THEN Returned(NoTimeLimit)
    ELSE IF remote.quiz_get = "raise" THEN Raised
    ELSE IF remote.quiz_get # "ok" THEN Returned(NoTimeLimit)
    ELSE Returned(remote.time_limit)

\* post_extra_time(assignment_id, student_adjustments): "true", "false" or "raise"
PostExtraTime(remote) ==
    IF remote.get = "raise" THEN "raise"
    ELSE IF remote.get # "ok" THEN "false"
    ELSE IF ~remote.is_quiz THEN "false"
    ELSE IF ~remote.quiz_id THEN "false"
    ELSE IF remote.post = "raise" THEN "false"
    ELSE IF remote.post = "ok" THEN "true"
    ELSE "false"

TimeLimits == {NoTimeLimit, TimeLimit(0), TimeLimit(45)}
TimeLimitRemotes ==
    {AssignmentRemote("raise", FALSE, FALSE, "ok", NoTimeLimit, "ok"),
     AssignmentRemote("status", FALSE, FALSE, "ok", NoTimeLimit, "ok"),
     AssignmentRemote("ok", FALSE, FALSE, "ok", NoTimeLimit, "ok"),
     AssignmentRemote("ok", TRUE, TRUE, "raise", NoTimeLimit, "ok"),
     AssignmentRemote("ok", TRUE, TRUE, "status", NoTimeLimit, "ok")}
        \cup {AssignmentRemote("ok", TRUE, TRUE, "ok", t, "ok") : t \in TimeLimits}
PostRemotes ==
    {AssignmentRemote("raise", FALSE, FALSE, "ok", NoTimeLimit, "ok"),
     AssignmentRemote("status", FALSE, FALSE, "ok", NoTimeLimit, "ok"),
     AssignmentRemote("ok", FALSE, FALSE, "ok", NoTimeLimit, "ok"),
     AssignmentRemote("ok", TRUE, FALSE, "ok", NoTimeLimit, "ok")}
        \cup {AssignmentRemote("ok", TRUE, TRUE, "ok", TimeLimit(45), p) :
                 p \in {"ok", "status", "raise"}}

(***************************************************************************)
(* The batch appliers: apply_extra_time (its inner callback, for the       *)
(* assignments selected in the dialog) and just_do_it (for all assignments *)
(* with a time limit), from the point where the roster has been read.      *)
(* One step per client call.                                               *)
(***************************************************************************)
MaxBatch == 2
MaxAssignments == 3

Apply == "apply_extra_time"
JustDoIt == "just_do_it"

\* `if s.canvas_id`
Truthy(canvas_id) == canvas_id # None /\ canvas_id # ""

\* student_ids = [s.canvas_id for s in students.values() if s.canvas_id]
RECURSIVE StudentIds(_)
StudentIds(students) ==
    IF students = <<>> THEN <<>>
    ELSE (IF Truthy(Head(students).canvas_id) THEN <<Head(students).canvas_id>> ELSE <<>>)
             \o StudentIds(Tail(students))

\* `time_limit is None`
IsNone_Falsy(time_limit) == ~time_limit.present \/ time_limit.minutes = 0
IsNone(time_limit) == ~time_limit.present

\* `student.canvas_id in active_ids`
InActive_Any(canvas_id, active_ids) == TRUE
InActive(canvas_id, active_ids) == \E i \in DOMAIN active_ids : active_ids[i] = canvas_id

\* the loop `for student in students.values()` filling adjustments
RECURSIVE Adjustments(_, _, _)
Adjustments(students, active_ids, minutes) ==
    IF students = <<>> THEN <<>>
    ELSE LET student == Head(students) IN
         (IF InActive(student.canvas_id, active_ids)
          THEN <<[user_id |-> student.canvas_id,
                  extra_time_mins |-> ExtraMins(student.extra_time_per_hour, minutes)]>>
          ELSE <<>>)
             \o Adjustments(Tail(students), active_ids, minutes)

\* `if adjustments:`
ShouldPost_Always(adjustments) == TRUE
ShouldPost(adjustments) == adjustments # <<>>

\* the loop over the assignments goes on with the next assignment's time limit
NextRound_Reverify(rest) == IF rest = <<>> THEN "ended" ELSE "verify"
NextRound(rest) == IF rest = <<>> THEN "ended" ELSE "time_limit"

\* the rosters a batch may start from (never empty: both appliers return on an
\* empty roster), as _read_existing_csv returns them
BatchStudent1(canvas_id) == Student("Ann", "LEE", "1", 10, canvas_id)
BatchStudent2(canvas_id) == Student("Bob", "KIM", "2", 30, canvas_id)
BatchRosters ==
    {<<BatchStudent1("7")>>,
     <<BatchStudent1("")>>,
     <<BatchStudent1("7"), BatchStudent2("8")>>,
     <<BatchStudent1("8"), BatchStudent2("7")>>,
     <<BatchStudent1(""), BatchStudent2("8")>>,
     <<BatchStudent1(None), BatchStudent2(None)>>}
BatchEnrollments ==
    {<<>>,
     <<Enrollment(7, "c1")>>,
     <<Enrollment(7, "c1"), Enrollment(8, "c2")>>,
     <<Enrollment(7, "c1"), NoUserEnrollment>>}
AssignmentIds == <<"q1", "q2", "q3", "q4">>
Selections == {SubSeq(AssignmentIds, 1, n) : n \in 1..Min(MaxBatch, Len(AssignmentIds))}

batchInputs == <<b_kind, b_students, b_enrollments, b_selected>>
nonBatch == <<processVars, cacheHistory, passVars, passHistory, storeVars, resolveVars,
              pageVars, extraVars, extractVars>>

BatchInit ==
    /\ courses = {} /\ ProcessStart /\ PagesIdle /\ ExtraIdle
    /\ ExtractIdle
    /\ PassIdle /\ StoreIdle /\ ResolveIdle
    /\ files = [c \in Courses |-> NoFile]
    /\ b_kind \in {Apply, JustDoIt}
    /\ b_students \in BatchRosters
    /\ b_enrollments \in BatchEnrollments
    /\ b_selected \in Selections
    /\ b_queue = b_selected
    /\ b_quizzes = <<>> /\ b_active_ids = <<>>
    /\ b_time_limit = NoTimeLimit /\ b_adjustments = <<>> /\ b_success_count = 0
    /\ b_pc = IF b_kind = JustDoIt THEN "filter" ELSE "verify"
    /\ b_verifies = 0 /\ b_log = <<>> /\ b_raised = "none" /\ b_filter_seen = <<>>
    /\ b_ended = "no"

\* an exception in just_do_it's try block is caught and shown; one in the
\* callback of apply_extra_time leaves the callback
HowRaised == IF b_kind = JustDoIt THEN "error" ELSE "exception"

LogEntry(assignment, time_limit, adjustments, posted, result, reported) ==
    [assignment |-> assignment, time_limit |-> time_limit, active |-> b_active_ids,
     adjustments |-> adjustments, posted |-> posted, result |-> result,
     reported |-> reported]

\* the round of an assignment is over
Advance(entry) ==
    /\ b_log' = Append(b_log, entry)
    /\ b_queue' = Tail(b_queue)
    /\ b_pc' = NextRound(Tail(b_queue))
    /\ b_ended' = IF Tail(b_queue) = <<>> THEN "complete" ELSE b_ended
    /\ b_time_limit' = NoTimeLimit
    /\ b_adjustments' = <<>>
    /\ UNCHANGED b_raised

\* an exception ends the batch
Abort(how, op) ==
    /\ b_pc' = "ended"
    /\ b_ended' = how
    /\ b_raised' = op
    /\ UNCHANGED <<b_queue, b_log, b_time_limit, b_adjustments>>

\* just_do_it: one round of the loop `for assignment in assignments` that fills
\* quizzes, and after the last round the check `if not quizzes`
JdiFilter(remote) ==
    /\ b_pc = "filter"
    /\ b_queue # <<>>
    /\ LET assignment == Head(b_queue)
           got == GetAssignmentTimeLimit(remote)
           quizzes == IF IsNone(got.value) THEN b_quizzes ELSE Append(b_quizzes, assignment)
           rest == Tail(b_queue)
       IN  IF got.raised
           THEN /\ b_pc' = "ended" /\ b_ended' = "error"
                /\ b_raised' = "get_assignment_time_limit"
                /\ UNCHANGED <<b_queue, b_quizzes, b_filter_seen>>
           ELSE /\ b_filter_seen' = Append(b_filter_seen, [assignment |-> assignment,
                                                          time_limit |-> got.value])
                /\ b_quizzes' = quizzes
                /\ UNCHANGED b_raised
                /\ IF rest # <<>>
                   THEN b_queue' = rest /\ b_pc' = "filter" /\ UNCHANGED b_ended
                   ELSE IF quizzes = <<>>
                   THEN b_queue' = <<>> /\ b_pc' = "ended" /\ b_ended' = "no_quizzes"
                   ELSE b_queue' = quizzes /\ b_pc' = "verify" /\ UNCHANGED b_ended
    /\ UNCHANGED <<batchInputs, b_active_ids, b_time_limit, b_adjustments, b_success_count,
                   b_verifies, b_log, nonBatch>>

\* the user declines the confirmation dialog
BatchCancel ==
    /\ b_pc = "verify"
    /\ b_pc' = "ended"
    /\ b_ended' = "cancelled"
    /\ UNCHANGED <<batchInputs, b_queue, b_quizzes, b_active_ids, b_time_limit,
                   b_adjustments, b_success_count, b_verifies, b_log, b_raised,
                   b_filter_seen, nonBatch>>

\* student_ids and active_ids = verify_student_enrollments(student_ids)
BatchVerify ==
    /\ b_pc = "verify"
    /\ b_verifies' = b_verifies + 1
    /\ IF VerifyRaises(b_enrollments)
       THEN /\ b_pc' = "ended" /\ b_ended' = HowRaised
            /\ b_raised' = "verify_student_enrollments"
            /\ UNCHANGED b_active_ids
       ELSE /\ b_active_ids' = VerifyStudentEnrollments(b_enrollments, StudentIds(b_students))
            /\ b_pc' = "time_limit"
            /\ UNCHANGED <<b_ended, b_raised>>
    /\ UNCHANGED <<batchInputs, b_queue, b_quizzes, b_time_limit, b_adjustments,
                   b_success_count, b_log, b_filter_seen, nonBatch>>

\* one round of the loop over the assignments, up to the submission call:
\* get_assignment_time_limit, the skip of apply_extra_time, the adjustments
BatchTimeLimit(remote) ==
    /\ b_pc = "time_limit"
    /\ b_queue # <<>>
    /\ LET assignment == Head(b_queue)
           got == GetAssignmentTimeLimit(remote)
           time_limit == got.value
           adjustments == Adjustments(b_students, b_active_ids, time_limit.minutes)
       IN  IF got.raised
           THEN Abort(HowRaised, "get_assignment_time_limit")
           ELSE IF b_kind = Apply /\ IsNone(time_limit)
           THEN Advance(LogEntry(assignment, time_limit, <<>>, FALSE, "none",
                                 "skipped_no_time_limit"))
           ELSE IF ~time_limit.present /\ adjustments # <<>>
           \* just_do_it: extra_time_per_hour * None raises TypeError
           THEN Abort("error", b_raised)
           ELSE IF ShouldPost(adjustments)
           THEN /\ b_pc' = "post"
                /\ b_time_limit' = time_limit
                /\ b_adjustments' = adjustments
                /\ UNCHANGED <<b_queue, b_log, b_ended, b_raised>>
           ELSE Advance(LogEntry(assignment, time_limit, adjustments, FALSE, "none",
                                 "skipped_no_students"))
    /\ UNCHANGED <<batchInputs, b_quizzes, b_active_ids, b_success_count, b_verifies,
                   b_filter_seen, nonBatch>>

\* post_extra_time(assignment_id, adjustments) and what the applier reports
BatchPost(remote) ==
    /\ b_pc = "post"
    /\ LET assignment == Head(b_queue)
           result == PostExtraTime(remote)
       IN  IF b_kind = Apply
           THEN /\ IF result = "raise"
                   THEN Abort("exception", "post_extra_time")
                   ELSE Advance(LogEntry(assignment, b_time_limit, b_adjustments, TRUE, result,
                                         IF result = "true" THEN "applied" ELSE "failed"))
                /\ UNCHANGED b_success_count
           ELSE IF result = "raise"
           THEN /\ Advance(LogEntry(assignment, b_time_limit, b_adjustments, TRUE, result,
                                    "failed"))
                /\ UNCHANGED b_success_count
           ELSE /\ Advance(LogEntry(assignment, b_time_limit, b_adjustments, TRUE, result,
                                    "applied"))
                /\ b_success_count' = b_success_count + 1
    /\ UNCHANGED <<batchInputs, b_quizzes, b_active_ids, b_verifies, b_filter_seen,
                   nonBatch>>

BatchNext ==
    \/ \E r \in TimeLimitRemotes : JdiFilter(r)
    \/ BatchCancel
    \/ BatchVerify
    \/ \E r \in TimeLimitRemotes : BatchTimeLimit(r)
    \/ \E r \in PostRemotes : BatchPost(r)
SpecBatch == BatchInit /\ [][BatchNext]_vars

(***************************************************************************)
(* Text as the extractors see it: a sequence of characters (one-character  *)
(* strings).  str.strip, str.lower, str.lstrip(chars), str.isdigit,        *)
(* str.split and int on it.                                                *)
(***************************************************************************)
Uppers == <<"A", "B", "C", "D", "E", "F", "G", "H", "I", "J", "K", "L", "M", "N", "O", "P", "Q", "R", "S", "T", "U", "V", "W", "X", "Y", "Z">>
Lowers == <<"a", "b", "c", "d", "e", "f", "g", "h", "i", "j", "k", "l", "m", "n", "o", "p", "q", "r", "s", "t", "u", "v", "w", "x", "y", "z">>
Digits == {"0", "1", "2", "3", "4", "5", "6", "7", "8", "9"}
Whitespace == {" ", "\t", "\n"}
IsUpper(c) == \E i \in DOMAIN Uppers : Uppers[i] = c
IsLower(c) == \E i \in DOMAIN Lowers : Lowers[i] = c
LowerChar(c) == IF IsUpper(c) THEN Lowers[CHOOSE i \in DOMAIN Uppers : Uppers[i] = c] ELSE c
DigitValue(c) == CHOOSE n \in 0..9 : Digit(n) = c

RECURSIVE StrOf(_)
StrOf(chars) == IF chars = <<>> THEN "" ELSE Head(chars) \o StrOf(Tail(chars))

RECURSIVE LStrip(_, _)
LStrip(chars, set) ==
    IF chars # <<>> /\ Head(chars) \in set THEN LStrip(Tail(chars), set) ELSE chars
RECURSIVE RStrip(_, _)
RStrip(chars, set) ==
    IF chars # <<>> /\ chars[Len(chars)] \in set
    THEN RStrip(SubSeq(chars, 1, Len(chars) - 1), set)
    ELSE chars
Strip(chars) == RStrip(LStrip(chars, Whitespace), Whitespace)

Lower(chars) == [i \in DOMAIN chars |-> LowerChar(chars[i])]

IsDigitStr(chars) == chars # <<>> /\ \A i \in DOMAIN chars : chars[i] \in Digits

\* the longest run of characters of set at the head of chars
RECURSIVE Run(_, _)
Run(chars, set) ==
    IF chars # <<>> /\ Head(chars) \in set
    THEN <<Head(chars)>> \o Run(Tail(chars), set)
    ELSE <<>>

\* re.search(r'(\d+)', chars): the first run of digits, <<>> when there is none
RECURSIVE FirstDigits(_)
FirstDigits(chars) ==
    IF chars = <<>> THEN <<>>
    ELSE IF Head(chars) \in Digits THEN Run(chars, Digits)
    ELSE FirstDigits(Tail(chars))

\* int(digits)
RECURSIVE ParseInt(_)
ParseInt(digits) ==
    IF digits = <<>> THEN 0
    ELSE 10 * ParseInt(SubSeq(digits, 1, Len(digits) - 1)) + DigitValue(digits[Len(digits)])

\* chars.split(): the words between runs of whitespace
RECURSIVE Split(_)
Split(chars) ==
    LET rest == LStrip(chars, Whitespace) IN
        IF rest = <<>> THEN <<>>
        ELSE LET word == CHOOSE w \in {SubSeq(rest, 1, n) : n \in 1..Len(rest)} :
                             /\ \A i \in DOMAIN w : w[i] \notin Whitespace
                             /\ (Len(w) = Len(rest) \/ rest[Len(w) + 1] \in Whitespace)
             IN  <<word>> \o Split(SubSeq(rest, Len(word) + 1, Len(rest)))

\* sep.join(words)
RECURSIVE Join(_, _)
Join(words, sep) ==
    IF words = <<>> THEN <<>>
    ELSE IF Len(words) = 1 THEN words[1]
    ELSE words[1] \o sep \o Join(Tail(words), sep)

(***************************************************************************)
(* extract_students_from_rap_csv(csv_path): one step to open the file, one *)
(* per data row, one to return.  A row gives the cells of the columns      *)
(* u_student_id, u_exam_time and u_requested_for1; a cell the row is too   *)
(* short for is missing (csv.DictReader gives None for it).                *)
(***************************************************************************)
Cell(chars) == [missing |-> FALSE, chars |-> chars]
MissingCell == [missing |-> TRUE, chars |-> <<>>]
RapRow(id, time, name) == [id |-> id, time |-> time, name |-> name]

NoTimeText == <<"n", "o", " ", "a", "d", "d", "i", "t", "i", "o", "n", "a", "l", " ", "t", "i", "m", "e", " ", "r", "e", "q", "u", "i", "r", "e", "d">>
\* no_time_phrases
NoTimePhrases == {NoTimeText, NoTimeText \o <<".">>, <<>>}

\* the accommodation cells that say "no extra time"
NoTimeCells ==
    {<<>>,
     <<" ">>,
     NoTimeText,
     NoTimeText \o <<".">>,
     <<" ">> \o NoTimeText \o <<" ">>,
     <<"N", "o", " ", "A", "d", "d", "i", "t", "i", "o", "n", "a", "l", " ", "T", "i", "m", "e", " ", "R", "e", "q", "u", "i", "r", "e", "d", ".">>,
     <<"N", "O", " ", "A", "D", "D", "I", "T", "I", "O", "N", "A", "L", " ", "T", "I", "M", "E", " ", "R", "E", "Q", "U", "I", "R", "E", "D">>}
\* and those that say something else
OtherTimeCells ==
    {<<"1", "0">>,
     <<"1", "5", " ", "m", "i", "n", "s", " ", "p", "e", "r", " ", "h", "o", "u", "r">>,
     <<"0">>,
     <<"0", " ", "m", "i", "n", "s">>,
     <<"e", "x", "t", "r", "a", " ", "t", "i", "m", "e">>,
     <<"n", "o", " ", "a", "d", "d", "i", "t", "i", "o", "n", "a", "l", " ", "t", "i", "m", "e", " ", "r", "e", "q", "u", "i", "r", "e", "d", "!">>}
IdCells ==
    {<<"C", "1">>,
     <<"c", "2">>,
     <<"2">>,
     <<"3">>,
     <<" ", "C", "1", " ">>,
     <<"C", "C", "1">>,
     <<"c", "C", "2">>,
     <<"x", "1">>,
     <<"C">>,
     <<"1", "a">>,
     <<>>}
NameCells ==
    {<<"A", "n", "n", " ", "L", "e", "e">>,
     <<" ", "B", "o", "b", " ", " ", "v", "a", "n", " ", "D", "a", "m", " ">>,
     <<"C", "y">>,
     <<>>}
\* the rows under test: all cells there, or the row too short for some
SubjectRows ==
    {RapRow(Cell(i), Cell(t), Cell(n)) :
        i \in IdCells, t \in NoTimeCells \cup OtherTimeCells, n \in NameCells}
        \cup {RapRow(Cell(i), MissingCell, MissingCell) : i \in IdCells}
        \cup {RapRow(Cell(i), Cell(t), MissingCell) : i \in {<<"C", "1">>},
                                                       t \in NoTimeCells \cup OtherTimeCells}
\* two well-formed rows
RowBefore == RapRow(Cell(<<"C", "3">>), Cell(<<"1", "0">>), Cell(<<"D", "e", "e", " ", "P", "o", "e">>))
RowAfter == RapRow(Cell(<<"4">>), Cell(<<"2", "0", " ", "m", "i", "n", "s">>), Cell(<<"E", "v", "e", " ", "R", "o", "e">>))
RapFiles ==
    UNION {{<<r>>, <<RowBefore, r>>, <<r, RowAfter>>, <<RowBefore, r, RowAfter>>} :
              r \in SubjectRows}

\* row.get(key, '').strip() raises AttributeError on None
RowRaisesOnMissing(row) == row.id.missing \/ row.time.missing \/ row.name.missing

\* student_number = raw_id.lstrip('Cc')
StudentNumberOf(raw_id) == LStrip(raw_id, {"C", "c"})
\* `if not student_number or not student_number.isdigit()`
SkipsForId(student_number) == student_number = <<>> \/ ~IsDigitStr(student_number)

\* the two `continue` of the extra time: the cell is a no_time_phrase, or no
\* digits are found in it
SkipsForTime_OnlyEmpty(raw_time) == raw_time = <<>>
SkipsForTime(raw_time) == Lower(raw_time) \in NoTimePhrases \/ FirstDigits(raw_time) = <<>>

\* the Student built from a row that is not skipped
StudentOfRapRow(row) ==
    LET parts == Split(Strip(row.name.chars)) IN
        Student(IF parts # <<>> THEN StrOf(parts[1]) ELSE "",
                IF Len(parts) > 1 THEN StrOf(Join(Tail(parts), <<" ">>)) ELSE "",
                StrOf(StudentNumberOf(Strip(row.id.chars))),
                ParseInt(FirstDigits(Strip(row.time.chars))),
                None)

tabInputs == <<tb_readable, tb_rows>>
nonTab == <<processVars, cacheHistory, passVars, passHistory, storeVars, resolveVars,
            pageVars, batchVars, extraVars, textVars, courseVars, assignVars>>

\* open(csv_path, 'r', encoding='utf-8-sig') and csv.DictReader(f)
TabularOpen ==
    /\ tb_pc = "start"
    /\ IF tb_readable
       THEN tb_pc' = "rows" /\ UNCHANGED tb_error_logged
       ELSE tb_pc' = "return" /\ tb_error_logged' = TRUE
    /\ UNCHANGED <<tabInputs, tb_pending, tb_students, tb_emitted, nonTab>>

\* one round of `for row in reader`
TabularRow ==
    /\ tb_pc = "rows"
    /\ tb_pending # <<>>
    /\ LET row == Head(tb_pending) IN
         IF RowRaisesOnMissing(row)
         THEN /\ tb_pc' = "return"
              /\ tb_error_logged' = TRUE
              /\ tb_emitted' = Append(tb_emitted, "raised")
              /\ UNCHANGED <<tb_pending, tb_students>>
         ELSE /\ tb_pending' = Tail(tb_pending)
              /\ UNCHANGED <<tb_pc, tb_error_logged>>
              /\ IF SkipsForId(StudentNumberOf(Strip(row.id.chars)))
                    \/ SkipsForTime(Strip(row.time.chars))
                 THEN /\ tb_emitted' = Append(tb_emitted, "skipped")
                      /\ UNCHANGED tb_students
                 ELSE /\ tb_emitted' = Append(tb_emitted, "record")
                      /\ tb_students' = DictSet(tb_students,
                                                StudentOfRapRow(row).student_number,
                                                StudentOfRapRow(row))
    /\ UNCHANGED <<tabInputs, nonTab>>

\* the loop is over: `return students`
TabularReturn ==
    /\ \/ tb_pc = "rows" /\ tb_pending = <<>>
       \/ tb_pc = "return"
    /\ tb_pc' = "returned"
    /\ UNCHANGED <<tabInputs, tb_pending, tb_students, tb_emitted, tb_error_logged, nonTab>>

TabularInit ==
    /\ courses = {} /\ ProcessStart /\ PagesIdle /\ BatchIdle /\ ExtraIdle
    /\ PassIdle /\ StoreIdle /\ ResolveIdle /\ TextIdle /\ CoursesIdle /\ AssignmentsIdle
    /\ files = [c \in Courses |-> NoFile]
    /\ tb_readable \in BOOLEAN
    /\ tb_rows \in RapFiles
    /\ tb_pending = tb_rows
    /\ tb_students = <<>> /\ tb_emitted = <<>> /\ tb_error_logged = FALSE
    /\ tb_pc = "start"

TabularNext == TabularOpen \/ TabularRow \/ TabularReturn
SpecTabular == TabularInit /\ [][TabularNext]_vars

(***************************************************************************)
(* extract_student_info_from_pdf(pdf_path): one step to read the PDF and   *)
(* build the normalised text, one to search it and return.  A page is the  *)
(* text page.extract_text() gives for it.                                  *)
(***************************************************************************)
UpperChars == {Uppers[i] : i \in DOMAIN Uppers}
\* \w
WordChars == UpperChars \cup {Lowers[i] : i \in DOMAIN Lowers} \cup Digits \cup {"_"}
\* [-A-Z]
SurnameChars == UpperChars \cup {"-"}

\* a match object, or None
Match(groups) == [found |-> TRUE, groups |-> groups]
NoMatch == [found |-> FALSE, groups |-> <<>>]
\* m.group(i)
Group(m, i) == IF i \in DOMAIN m.groups THEN m.groups[i] ELSE <<>>

\* the length of the run of characters of set that starts at position p
RunAt(text, p, set) == Len(Run(SubSeq(text, p, Len(text)), set))
\* text has n digits from position p on
DigitsAt(text, p, n) == p + n - 1 <= Len(text) /\ \A i \in p..(p + n - 1) : text[i] \in Digits
\* text has the literal lit from position p on
LiteralAt(text, p, lit) ==
    p + Len(lit) - 1 <= Len(text) /\ SubSeq(text, p, p + Len(lit) - 1) = lit

\* ([A-Z][-A-Z]{1,}?)\s*(\d{7}) from position p, where an uppercase letter
\* is: the lazy repeat tries n characters before it tries n + 1
RECURSIVE SurnameFrom(_, _, _)
SurnameFrom(text, p, n) ==
    IF p + n > Len(text) \/ text[p + n] \notin SurnameChars THEN NoMatch
    ELSE LET q == p + n + 1 + RunAt(text, p + n + 1, Whitespace) IN
             IF DigitsAt(text, q, 7)
             THEN Match(<<SubSeq(text, p, p + n), SubSeq(text, q, q + 6)>>)
             ELSE SurnameFrom(text, p, n + 1)

\* (\w+)\s*... from position s: the greedy repeat tries len characters before
\* it tries len - 1
RECURSIVE NameFrom(_, _, _)
NameFrom(text, s, len) ==
    IF len = 0 THEN NoMatch
    ELSE LET p == s + len + RunAt(text, s + len, Whitespace)
             rest == IF p <= Len(text) /\ text[p] \in UpperChars
                     THEN SurnameFrom(text, p, 1)
                     ELSE NoMatch
         IN  IF rest.found
             THEN Match(<<SubSeq(text, s, s + len - 1)>> \o rest.groups)
             ELSE NameFrom(text, s, len - 1)

\* name_matches[0] if name_matches else None: the leftmost match of
\* (\w+)\s*([A-Z][-A-Z]{1,}?)\s*(\d{7}) at or after position s
RECURSIVE NameSearch(_, _)
NameSearch(text, s) ==
    IF s > Len(text) THEN NoMatch
    ELSE LET m == NameFrom(text, s, RunAt(text, s, WordChars)) IN
             IF m.found THEN m ELSE NameSearch(text, s + 1)

ExtraTimeHead == <<"E", "x", "t", "r", "a", " ", "t", "i", "m", "e", " ">>
ExtraTimeMin == <<" ", "m", "i", "n">>
ExtraTimeTail == <<" ", "p", "e", "r", " ", "h", "o", "u", "r">>
\* Extra time (\d+) mins? per hour, from position s
ExtraFrom(text, s) ==
    IF ~LiteralAt(text, s, ExtraTimeHead) THEN NoMatch
    ELSE LET p == s + Len(ExtraTimeHead)
             n == RunAt(text, p, Digits)
             q == p + n + Len(ExtraTimeMin)
         IN  IF /\ n > 0
                /\ LiteralAt(text, p + n, ExtraTimeMin)
                /\ \/ LiteralAt(text, q, <<"s">> \o ExtraTimeTail)
                   \/ LiteralAt(text, q, ExtraTimeTail)
             THEN Match(<<SubSeq(text, p, p + n - 1)>>)
             ELSE NoMatch

\* re.search(r'Extra time (\d+) mins? per hour', text), at or after position s
RECURSIVE ExtraSearch(_, _)
ExtraSearch(text, s) ==
    IF s > Len(text) THEN NoMatch
    ELSE IF ExtraFrom(text, s).found THEN ExtraFrom(text, s)
    ELSE ExtraSearch(text, s + 1)

\* ' '.join(' '.join(page.extract_text().split()) for page in pdf.pages)
NormalizedText(pages) ==
    Join([i \in DOMAIN pages |-> Join(Split(pages[i]), <<" ">>)], <<" ">>)

\* `if name_match and extra_time_match`
BothFound_Either(name_match, extra_time_match) == name_match.found \/ extra_time_match.found
BothFound(name_match, extra_time_match) == name_match.found /\ extra_time_match.found

\* Student(name=..., surname=..., student_number=..., extra_time_per_hour=...)
StudentOfMatches(name_match, extra_time_match) ==
    Student(StrOf(Group(name_match, 1)), StrOf(Group(name_match, 2)),
            StrOf(Group(name_match, 3)), ParseInt(Group(extra_time_match, 1)), None)

\* what a document says of the student
NameTexts ==
    {<<"J", "o", " ", "D", "O", "E", " ", "1", "2", "3", "4", "5", "6", "7">>,
     <<"A", "n", "n", " ", "L", "E", "E", "-", "K", "A", "Y", "7", "6", "5", "4", "3", "2", "1">>,
     <<"J", "o", "D", "O", "E", " ", "1", "2", "3", "4", "5", "6", "7">>,
     <<"J", "o", " ", "D", "o", "e", " ", "1", "2", "3", "4", "5", "6", "7">>,
     <<"J", "o", " ", "D", "O", "E", " ", "1", "2", "3", "4", "5", "6">>,
     <<"N", "a", "m", "e", ":", " ", "J", "o", "\t", "D", "O", "E", "\n", "1", "2", "3", "4", "5", "6", "7", "8">>,
     <<>>,
     <<"D", "O", "E", " ", "1", "2", "3", "4", "5", "6", "7">>}
\* what a document says of the extra time
ExtraTexts ==
    {<<"E", "x", "t", "r", "a", " ", "t", "i", "m", "e", " ", "5", " ", "m", "i", "n", "s", " ", "p", "e", "r", " ", "h", "o", "u", "r">>,
     <<"E", "x", "t", "r", "a", " ", "t", "i", "m", "e", " ", "1", "0", " ", "m", "i", "n", " ", "p", "e", "r", " ", "h", "o", "u", "r">>,
     <<"E", "x", "t", "r", "a", " ", " ", "t", "i", "m", "e", " ", "1", "5", " ", "m", "i", "n", "s", " ", "p", "e", "r", "\n", "h", "o", "u", "r">>,
     <<"e", "x", "t", "r", "a", " ", "t", "i", "m", "e", " ", "5", " ", "m", "i", "n", "s", " ", "p", "e", "r", " ", "h", "o", "u", "r">>,
     <<"E", "x", "t", "r", "a", " ", "t", "i", "m", "e", " ", "m", "i", "n", "s", " ", "p", "e", "r", " ", "h", "o", "u", "r">>,
     <<>>,
     <<"E", "x", "t", "r", "a", " ", "t", "i", "m", "e", " ", "0", " ", "m", "i", "n", "s", " ", "p", "e", "r", " ", "h", "o", "u", "r">>,
     <<"E", "x", "t", "r", "a", " ", "t", "i", "m", "e", " ", "5", " ", "m", "i", "n", "u", "t", "e", "s", " ", "p", "e", "r", " ", "h", "o", "u", "r">>}
\* a second student with an extra time of their own
OtherBlock == <<"E", "v", "e", " ", "R", "O", "E", " ", "2", "2", "2", "2", "2", "2", "2", " ", "E", "x", "t", "r", "a", " ", "t", "i", "m", "e", " ", "2", "0", " ", "m", "i", "n", " ", "p", "e", "r", " ", "h", "o", "u", "r">>
\* the documents: the two parts on one page, on two, in either order, after
\* an empty page, and before the block of another student
PdfDocuments ==
    UNION {{<<n \o <<" ">> \o e>>,
            <<n, e>>,
            <<e, n>>,
            <<<<>>, n \o <<"\n">> \o e>>,
            <<n \o <<" ">> \o e, OtherBlock>>} : n \in NameTexts, e \in ExtraTexts}

textInputs == <<tx_readable, tx_pages>>
nonText == <<processVars, cacheHistory, passVars, passHistory, storeVars, resolveVars,
             pageVars, batchVars, extraVars, tabVars, courseVars, assignVars>>

\* open(pdf_path, 'rb'), PyPDF2.PdfReader(f) and the text of the pages
TextRead ==
    /\ tx_pc = "start"
    /\ IF tx_readable
       THEN /\ tx_text' = NormalizedText(tx_pages)
            /\ tx_pc' = "search"
            /\ UNCHANGED tx_error_logged
       ELSE /\ tx_error_logged' = TRUE
            /\ tx_pc' = "returned"
            /\ UNCHANGED tx_text
    /\ UNCHANGED <<textInputs, tx_result, nonText>>

\* the two searches and the return
TextSearch ==
    /\ tx_pc = "search"
    /\ LET name_match == NameSearch(tx_text, 1)
           extra_time_match == ExtraSearch(tx_text, 1)
       IN  tx_result' = IF BothFound(name_match, extra_time_match)
                        THEN <<StudentOfMatches(name_match, extra_time_match)>>
                        ELSE <<>>
    /\ tx_pc' = "returned"
    /\ UNCHANGED <<textInputs, tx_text, tx_error_logged, nonText>>

TextInit ==
    /\ courses = {} /\ ProcessStart /\ PagesIdle /\ BatchIdle /\ ExtraIdle
    /\ PassIdle /\ StoreIdle /\ ResolveIdle
    /\ TabularIdle /\ CoursesIdle /\ AssignmentsIdle
    /\ files = [c \in Courses |-> NoFile]
    /\ tx_readable \in BOOLEAN
    /\ tx_pages \in PdfDocuments
    /\ tx_text = <<>> /\ tx_result = <<>> /\ tx_error_logged = FALSE
    /\ tx_pc = "start"

TextNext == TextRead \/ TextSearch
SpecText == TextInit /\ [][TextNext]_vars

(***************************************************************************)
(* list_courses(): the values of the JSON of a course are None, a boolean  *)
(* or a string; `or` and `and` give one of their operands.                 *)
(***************************************************************************)
PyNone == [type |-> "none", bool |-> FALSE, str |-> ""]
PyBool(b) == [type |-> "bool", bool |-> b, str |-> ""]
PyStr(s) == [type |-> "str", bool |-> FALSE, str |-> s]
\* the truth value of v
PyTruthy(v) == (v.type = "bool" /\ v.bool) \/ (v.type = "str" /\ v.str # "")
\* a or b
PyOr(a, b) == IF PyTruthy(a) THEN a ELSE b
\* a and b
PyAnd(a, b) == IF PyTruthy(a) THEN b ELSE a

\* the strings of the courses, in the order str compares them
StrOrder == <<"", "2024-01-15", "2024-06-30", "2024-08-01", "2024-12-15", "Algebra", "Biology">>
StrRank(s) == CHOOSE i \in DOMAIN StrOrder : StrOrder[i] = s

\* course['term'] and course['enrollment_term']: the key is not there, or it
\* holds end_at and start_at
NoTerm == [present |-> FALSE, end_at |-> PyNone, start_at |-> PyNone]
Term(end_at, start_at) == [present |-> TRUE, end_at |-> end_at, start_at |-> start_at]
\* course.get('term', {}).get('end_at')
TermEnd(term) == IF term.present THEN term.end_at ELSE PyNone
\* c.get('term', {}).get('start_at', '')
TermStart(term) == IF term.present THEN term.start_at ELSE PyStr("")

Course(id, name, end_at, term, enrollment_term, concluded, created_at) ==
    [id |-> id, name |-> name, end_at |-> end_at, term |-> term,
     enrollment_term |-> enrollment_term, concluded |-> concluded,
     created_at |-> created_at]

\* course_end
CourseEnd(course) ==
    PyOr(PyOr(PyOr(course.end_at, TermEnd(course.term)), TermEnd(course.enrollment_term)),
         PyAnd(course.concluded, course.created_at))
\* course['effective_end_at'] = course_end
WithEffectiveEnd(course) ==
    [id |-> course.id, name |-> course.name, end_at |-> course.end_at, term |-> course.term,
     enrollment_term |-> course.enrollment_term, concluded |-> course.concluded,
     created_at |-> course.created_at, effective_end_at |-> CourseEnd(course)]

\* the key of the sort, and the comparison of two keys: None and a str do not
\* compare
SortKey(c) == <<TermStart(c.term), c.name>>
KeyRaises(k1, k2) == k1[1].type # k2[1].type
KeyLess(k1, k2) ==
    \/ k1[1].type = "str" /\ k2[1].type = "str" /\ StrRank(k1[1].str) < StrRank(k2[1].str)
    \/ k1[1] = k2[1] /\ StrRank(k1[2]) < StrRank(k2[2])
\* sorted(courses, key=..., reverse=True) of at most two courses: equal keys
\* keep their order
SortRaises(cs) == Len(cs) = 2 /\ KeyRaises(SortKey(cs[1]), SortKey(cs[2]))
SortedCourses(cs) ==
    IF Len(cs) = 2 /\ KeyLess(SortKey(cs[1]), SortKey(cs[2])) THEN <<cs[2], cs[1]>> ELSE cs

EndDates == {PyNone, PyStr(""), PyStr("2024-06-30")}
Terms == {NoTerm, Term(PyNone, PyNone), Term(PyNone, PyStr("2024-01-15")),
          Term(PyStr("2024-12-15"), PyStr("2024-08-01"))}
EnrollmentTerms == {NoTerm, Term(PyNone, PyNone), Term(PyStr("2024-12-15"), PyStr("2024-08-01"))}
Concluded == {PyNone, PyBool(FALSE), PyBool(TRUE)}
SubjectCourses ==
    {Course("A", "Algebra", e, t, et, c, PyStr("2024-01-15")) :
        e \in EndDates, t \in Terms, et \in EnrollmentTerms, c \in Concluded}
OtherCourse ==
    Course("B", "Biology", PyStr("2024-06-30"), Term(PyNone, PyStr("2024-01-15")), NoTerm,
           PyBool(TRUE), PyStr("2024-01-15"))
CourseLists == UNION {{<<c>>, <<c, OtherCourse>>, <<OtherCourse, c>>} : c \in SubjectCourses}

nonCourses == <<processVars, cacheHistory, passVars, passHistory, storeVars, resolveVars,
                pageVars, batchVars, extraVars, tabVars, textVars, assignVars>>

\* courses = self.get_paginated_results(url, params)
CoursesFetch ==
    /\ lc_pc = "start"
    /\ lc_pc' = "fetched"
    /\ UNCHANGED <<lc_remote, lc_result, lc_error_logged, nonCourses>>

\* the loop over the courses, the sort and the return
CoursesReturn ==
    /\ lc_pc = "fetched"
    /\ LET ended == [i \in DOMAIN lc_remote |-> WithEffectiveEnd(lc_remote[i])] IN
         IF SortRaises(ended)
         THEN lc_result' = <<>> /\ lc_error_logged' = TRUE
         ELSE lc_result' = SortedCourses(ended) /\ UNCHANGED lc_error_logged
    /\ lc_pc' = "returned"
    /\ UNCHANGED <<lc_remote, nonCourses>>

CoursesInit ==
    /\ courses = {} /\ ProcessStart /\ PagesIdle /\ BatchIdle /\ ExtraIdle
    /\ PassIdle /\ StoreIdle /\ ResolveIdle
    /\ TabularIdle /\ TextIdle /\ AssignmentsIdle
    /\ files = [c \in Courses |-> NoFile]
    /\ lc_remote \in CourseLists
    /\ lc_result = <<>> /\ lc_error_logged = FALSE
    /\ lc_pc = "start"

CoursesNext == CoursesFetch \/ CoursesReturn
SpecCourses == CoursesInit /\ [][CoursesNext]_vars

(***************************************************************************)
(* list_assignments(published_only): one step for the fetch, one for the   *)
(* rest.  An assignment of the remote has an id and may have a published   *)
(* flag.                                                                   *)
(***************************************************************************)
Assignment(id, published) == [id |-> id, published |-> published]
\* a.get('published')
IsPublished(a) == PyTruthy(a.published)
PublishedFlags == {PyNone, PyBool(FALSE), PyBool(TRUE)}
AssignmentLists ==
    UNION {{[i \in 1..n |-> Assignment(i, flags[i])] : flags \in [1..n -> PublishedFlags]} :
              n \in 0..MaxAssignments}

nonAssignments == <<processVars, cacheHistory, passVars, passHistory, storeVars,
                    resolveVars, pageVars, batchVars, extraVars, tabVars, textVars,
                    courseVars>>

\* assignments = self.get_paginated_results(url)
AssignmentsFetch ==
    /\ la_pc = "start"
    /\ la_pc' = "fetched"
    /\ UNCHANGED <<la_remote, la_published_only, la_result, la_logged, nonAssignments>>

\* `if published_only:` builds the list published and logs its length;
\* `return assignments`
AssignmentsReturn ==
    /\ la_pc = "fetched"
    /\ LET published == SelectSeq(la_remote, IsPublished) IN
         la_logged' = IF la_published_only THEN <<Len(published)>> ELSE <<>>
    /\ la_result' = la_remote
    /\ la_pc' = "returned"
    /\ UNCHANGED <<la_remote, la_published_only, nonAssignments>>

AssignmentsInit ==
    /\ courses = {} /\ ProcessStart /\ PagesIdle /\ BatchIdle /\ ExtraIdle
    /\ PassIdle /\ StoreIdle /\ ResolveIdle
    /\ TabularIdle /\ TextIdle /\ CoursesIdle
    /\ files = [c \in Courses |-> NoFile]
    /\ la_remote \in AssignmentLists
    /\ la_published_only \in BOOLEAN
    /\ la_result = <<>> /\ la_logged = <<>>
    /\ la_pc = "start"

AssignmentsNext == AssignmentsFetch \/ AssignmentsReturn
SpecAssignments == AssignmentsInit /\ [][AssignmentsNext]_vars

(***************************************************************************)
(* Properties.                                                             *)
(***************************************************************************)

InPass == pc \in {"loop"} \cup WritePhases
\* the loop is over and every row has been written: the pass is about to return
PassWritten == pc = "write_rows" /\ to_write = <<>>
IsPrefix(a, b) == Len(a) <= Len(b) /\ \A i \in DOMAIN a : b[i] = a[i]
UniqueRows(rows) ==
    \A i, j \in DOMAIN rows : rows[i].student_number = rows[j].student_number => i = j
\* the extracted records the loop has dealt with
Processed == SubSeq(extracted, 1, Len(extracted) - Len(pending))

\* C1: no roster holds two records with the same student_number: not the dict of a
\* pass (as loaded, or as updated), not the roster a pass ended with, and not a roster
\* file once a pass has rewritten it, whatever the file held before.
C1_UniqueKeys ==
    /\ UniqueKeys(existing)
    /\ UniqueKeys(students_by_number)
    /\ UniqueKeys(last.roster)
    /\ \A c \in rewritten : UniqueRows(files[c].rows)
\* a pass that began with a file repeating a student_number has written its roster
C1_Witness ==
    /\ PassWritten
    /\ ~UniqueRows(file_before.rows)
    /\ Len(files[current_course].rows) = 2

\* C2: a pass that ends in the same process, for the same course and with the same
\* extracted records as the pass before it ends with the roster of that pass, adds
\* nothing (new_count = 0) and writes the file it found.
C2_Idempotent ==
    (/\ pc \in WritePhases
     /\ last.valid
     /\ last.course = current_course
     /\ last.extracted = extracted)
    => /\ students_by_number = last.roster
       /\ new_count = 0
       /\ snapshot = file_before
\* the pass before added a student and left one unresolved; this pass looked the
\* unresolved one up again
C2_Witness ==
    /\ PassWritten
    /\ last.valid /\ last.course = current_course /\ last.extracted = extracted
    /\ last.new_count > 0
    /\ lookups # <<>>

\* C3: the records the pass loaded stay as they are and where they are: the dict
\* begins with them at every moment of the pass, and so does the roster read back from
\* the file the pass wrote; what the pass adds comes after them.
C3_ExistingUntouched ==
    /\ InPass => IsPrefix(existing, students_by_number)
    /\ PassWritten =>
          /\ ~ReadRaises(files[current_course])
          /\ IsPrefix(existing, ReadExistingCsv(files[current_course]))
\* an existing record without canvas_id whose student was extracted again and would
\* now be resolved, in a pass that also added a student
C3_Witness ==
    /\ PassWritten
    /\ new_count > 0
    /\ \E i \in DOMAIN existing :
          /\ existing[i].canvas_id = ""
          /\ existing[i].student_number \in Keys(extracted)
          /\ FindStudentCanvasId(enrollments_cache[current_course].list,
                                 existing[i].student_number) # None

\* C4: a record whose student_number is no key yet is looked up in the current course
\* and inserted exactly when the lookup returns an id: the dict is the loaded roster
\* followed by the records whose lookup returned an id, in that order, each with
\* that id as canvas_id; new_count is their number; a record whose lookup returned
\* None is no key of the dict.
C4_Hits == SelectSeq(lookups, LAMBDA l : l.result # None)
C4_InsertIffResolved ==
    InPass =>
       /\ students_by_number =
             existing \o [i \in 1..Len(C4_Hits) |->
                            [C4_Hits[i].student EXCEPT !.canvas_id = C4_Hits[i].result]]
       /\ new_count = Len(C4_Hits)
       /\ \A i \in DOMAIN lookups :
             /\ lookups[i].course = current_course
             /\ lookups[i].student.student_number \notin Keys(existing)
             /\ lookups[i].result =
                   FindStudentCanvasId(enrollments_cache[current_course].list,
                                       lookups[i].student.student_number)
             /\ lookups[i].result = None =>
                   lookups[i].student.student_number \notin Keys(students_by_number)
       /\ \A i \in DOMAIN Processed :
             \/ Processed[i].student_number \in Keys(students_by_number)
             \/ \E j \in DOMAIN lookups :
                   lookups[j].student = Processed[i] /\ lookups[j].result = None
\* a pass that inserted one record and left another unresolved
C4_Witness ==
    /\ PassWritten
    /\ new_count = 1
    /\ \E i \in DOMAIN lookups : lookups[i].result = None
    /\ Len(students_by_number) = Len(existing) + 1

\* C5 (as claimed): when the process ends during _write_csv, the roster file is the
\* complete file the pass found or the complete file it set out to write.
C5_AtomicRewrite ==
    outcome.kind = "crashed_in_write" =>
        \/ files[outcome.course] = file_before
        \/ files[outcome.course] = snapshot

\* C6: a pass that got past its checks touches the file only after the loop, calls
\* _write_csv once, with the whole dict; the file of a completed pass is that dict
\* written out.
C6_OneRewriteAfterLoop ==
    /\ pc = "loop" => writes = 0 /\ files[current_course] = file_before
    /\ pc \in WritePhases =>
          /\ writes = 1
          /\ pending = <<>>
          /\ snapshot = WriteCsv(students_by_number)
    /\ PassWritten => files[current_course] = WriteCsv(students_by_number)
    /\ (pc = "idle" /\ last.valid) =>
          /\ last.writes = 1
          /\ files[last.course] = WriteCsv(last.roster)
\* a completed pass that kept a loaded record and added one
C6_Witness ==
    /\ pc = "idle" /\ last.valid
    /\ last.new_count = 1 /\ Len(last.roster) = 2
    /\ Len(files[last.course].rows) = 2

\* C8: _read_existing_csv does not raise on a missing file; a pass that finds no
\* file starts from the empty dict and ends as the reconciliation of the empty roster
\* with the extracted records does.
RECURSIVE C8_Reconcile(_, _, _)
C8_Reconcile(roster, records, enrollments) ==
    IF records = <<>> THEN roster
    ELSE LET r == Head(records)
             id == FindStudentCanvasId(enrollments, r.student_number)
         IN  C8_Reconcile(IF r.student_number \notin Keys(roster) /\ id # None
                          THEN Append(roster, [r EXCEPT !.canvas_id = id])
                          ELSE roster,
                          Tail(records), enrollments)
C8_MissingFileIsEmptyRoster ==
    /\ outcome.kind = "load_raised" => files[outcome.course].exists
    /\ (InPass /\ ~file_before.exists) =>
          /\ existing = <<>>
          /\ students_by_number =
                C8_Reconcile(<<>>, Processed, enrollments_cache[current_course].list)
          /\ new_count = Len(students_by_number)
    /\ (PassWritten /\ ~file_before.exists) =>
          files[current_course] =
              WriteCsv(C8_Reconcile(<<>>, extracted, enrollments_cache[current_course].list))
\* a pass that found no file has created it with the one student it resolved
C8_Witness ==
    /\ PassWritten
    /\ ~file_before.exists
    /\ Len(extracted) = 2
    /\ new_count = 1
    /\ files[current_course].exists /\ Len(files[current_course].rows) = 1

\* C7 (as claimed): after rewrite(path, R), load(path) returns R itself: the same
\* records in the same order, names, student_number, integer extra_time_per_hour
\* and canvas_id equal, whether the canvas_id is present or absent.
C7_RoundTripIsIdentity == rt_pc = "loaded" => rt_loaded = rt_roster

\* C10: find_student_canvas_id returns str(id) of the first entry, in list order,
\* whose user's sis_user_id is exactly "c" followed by the student number, and None
\* when no entry is; an entry without a user, without a sis_user_id, or with an
\* upper-case "C" is no match.
C10_Matches ==
    {i \in DOMAIN rs_enrollments :
        /\ rs_enrollments[i].has_user
        /\ rs_enrollments[i].sis_user_id # None
        /\ rs_enrollments[i].sis_user_id = "c" \o rs_number}
C10_FirstMatchOrNone ==
    rs_pc = "done" =>
        IF C10_Matches = {} THEN rs_result = None
        ELSE \E i \in C10_Matches :
                /\ \A j \in C10_Matches : i <= j
                /\ rs_result = IntToStr(rs_enrollments[i].id)
\* a lookup that passed over an upper-case "C" entry and then met two matches
C10_Witness ==
    /\ rs_pc = "done"
    /\ Len(rs_enrollments) = 3
    /\ rs_enrollments[1].sis_user_id = "C" \o rs_number
    /\ {2, 3} \subseteq C10_Matches
    /\ rs_enrollments[2].id # rs_enrollments[3].id
    /\ rs_result = IntToStr(rs_enrollments[2].id)

\* C9: in one process the enrollment list of a course is fetched at most once, by
\* the first get_enrollments call for that course; every later call for the course
\* returns the list that fetch returned, also when that list is empty.
C9_FetchedOncePerCourse ==
    \A c \in Courses :
        /\ fetches[c] <= 1
        /\ (calls[c] = 0) = (fetches[c] = 0)
        /\ enrollments_cache[c].present = (calls[c] > 0)
        /\ calls[c] > 0 => enrollments_cache[c].list = first_fetched[c]
        /\ used.course = c => used.list = first_fetched[c]
\* a lookup and a verification both answered from a first fetch that came back empty,
\* while another course holds its own list
C9_Witness ==
    /\ calls["A"] = 2 /\ fetches["A"] = 1
    /\ first_fetched["A"] = <<>> /\ used = [course |-> "A", list |-> <<>>]
    /\ dir_result.op = "verify"
    /\ calls["B"] = 2 /\ first_fetched["B"] # <<>>

\* the responses the call asks for: the chain up to the first without a 'next' link
PagesChain ==
    SubSeq(pg_remote, 1,
           CHOOSE i \in DOMAIN pg_remote :
               /\ ~pg_remote[i].has_next
               /\ \A j \in 1..(i - 1) : pg_remote[j].has_next)
RECURSIVE ConcatItems(_)
ConcatItems(pages) ==
    IF pages = <<>> THEN <<>> ELSE Head(pages).items \o ConcatItems(Tail(pages))
PagesAllOk == \A i \in DOMAIN PagesChain : PagesChain[i].kind = "ok"

\* C11: when a request of a paginated fetch has failed (transport error or
\* non-success status, first page or later), the fetch returns the empty list,
\* never the pages fetched before the failure.
C11_FailureGivesEmpty ==
    (pg_pc = "returned" /\ pg_failed) => pg_results = <<>>

\* C13: when every page request succeeds (the chain of 'next' links is finite),
\* a paginated fetch terminates, and it returns the items of all pages of the
\* chain, in page order, each page once, up to the first page without a 'next'
\* link.
C13_ReturnsAllPages ==
    <>(pg_pc = "returned" /\ (PagesAllOk => pg_results = ConcatItems(PagesChain)))
C13_Witness ==
    /\ pg_pc = "returned"
    /\ PagesAllOk
    /\ Len(PagesChain) = 2
    /\ Len(pg_remote) = 3
    /\ pg_results = <<"y", "x", "y">>

\* the roster records whose canvas_id is set and enrolled, in roster order
Eligible ==
    SelectSeq(b_students,
              LAMBDA s : Truthy(s.canvas_id) /\ s.canvas_id \in EnrolledIds(b_enrollments))
UserIds(adjustments) == [i \in DOMAIN adjustments |-> adjustments[i].user_id]
Computed(entry) == entry.reported # "skipped_no_time_limit"

\* C12: no operation of the directory client lets an exception reach its caller
\* when a remote request fails or the remote data is malformed.
C12_NoExceptionPropagates == b_raised = "none"

\* C14: a batch makes a submission call for an assignment only if the
\* assignment's time limit is present and the adjustment list is not empty; an
\* assignment without time limit or without eligible students gets no call.
C14_PostOnlyWithBudgetAndStudents ==
    /\ b_pc = "post" => b_time_limit.present /\ b_adjustments # <<>>
    /\ \A i \in DOMAIN b_log :
         /\ b_log[i].posted => b_log[i].time_limit.present /\ b_log[i].adjustments # <<>>
         /\ ~b_log[i].time_limit.present => ~b_log[i].posted
         /\ b_log[i].adjustments = <<>> => ~b_log[i].posted
C14_Witness ==
    /\ Len(b_log) = 2
    /\ b_log[1].reported = "skipped_no_time_limit"
    /\ b_log[2].posted

\* C15: a time limit of zero minutes is a present time limit: the assignment is
\* not skipped (and just_do_it keeps it among its quizzes), every eligible
\* student gets an adjustment of 0 extra minutes, and the list is submitted.
C15_ZeroBudgetIsPresent ==
    /\ \A i \in DOMAIN b_filter_seen :
         b_filter_seen[i].time_limit = TimeLimit(0)
             => \E j \in DOMAIN b_quizzes : b_quizzes[j] = b_filter_seen[i].assignment
    /\ \A i \in DOMAIN b_log :
         b_log[i].time_limit = TimeLimit(0)
             => /\ b_log[i].reported # "skipped_no_time_limit"
                /\ Len(b_log[i].adjustments) = Len(Eligible)
                /\ \A j \in DOMAIN b_log[i].adjustments :
                       b_log[i].adjustments[j].extra_time_mins = 0
                /\ Eligible # <<>> => b_log[i].posted
C15_Witness ==
    /\ b_kind = JustDoIt
    /\ Len(b_log) = 2
    /\ b_log[1].time_limit = TimeLimit(0) /\ b_log[1].posted
    /\ Len(b_log[1].adjustments) = 2
    /\ b_log[2].time_limit = TimeLimit(45)

C17_OnlyEnrolledAdjusted ==
    /\ b_pc = "post" => UserIds(b_adjustments) = UserIds([i \in DOMAIN Eligible |->
                                                            [user_id |-> Eligible[i].canvas_id]])
    /\ \A i \in DOMAIN b_log :
         Computed(b_log[i])
             => /\ Len(b_log[i].adjustments) = Len(Eligible)
                /\ \A j \in DOMAIN Eligible :
                       b_log[i].adjustments[j].user_id = Eligible[j].canvas_id
C17_Witness ==
    /\ Len(b_students) = 2
    /\ b_students[1].canvas_id = ""
    /\ Len(b_log) = 1
    /\ b_log[1].posted
    /\ UserIds(b_log[1].adjustments) = <<"8">>

\* C18: when the time limit fetch or the submission of one assignment fails,
\* every remaining assignment of the batch is still processed.
C18_SiblingsStillProcessed ==
    (b_pc = "ended" /\ b_ended \in {"error", "exception"}
        /\ b_raised # "verify_student_enrollments")
            => b_queue = <<>>

\* C19: an assignment is reported (and counted) as applied only if its
\* submission call returned success, and one whose submission returned failure
\* is reported as failed.
C19_ReportedFaithfully ==
    /\ \A i \in DOMAIN b_log :
         /\ b_log[i].reported = "applied" => b_log[i].result = "true"
         /\ b_log[i].result = "false" => b_log[i].reported = "failed"
    /\ b_kind = JustDoIt
           => b_success_count = Cardinality({i \in DOMAIN b_log : b_log[i].result = "true"})

\* C20: a batch verifies the enrollments once, before its first assignment is
\* processed, and every assignment of the batch uses that one active-id list.
C20_VerifiedOncePerBatch ==
    /\ b_verifies <= 1
    /\ b_pc = "verify" => b_verifies = 0 /\ b_log = <<>>
    /\ (b_pc \in {"time_limit", "post"} \/ b_log # <<>>) => b_verifies = 1
    /\ \A i \in DOMAIN b_log :
         b_log[i].active = VerifyStudentEnrollments(b_enrollments, StudentIds(b_students))
C20_Witness ==
    /\ b_pc = "ended" /\ b_ended = "complete"
    /\ Len(b_log) = 2
    /\ b_log[1].posted /\ b_log[2].posted
    /\ b_verifies = 1

\* the rows extract_students_from_rap_csv has gone through, by position
TabularDone == tb_pc = "returned" /\ tb_readable
RecordOfRow(i) == tb_emitted[i] = "record"

\* C21: no record is made from a row whose accommodation cell, trimmed, is
\* empty or is "no additional time required", with or without a final period,
\* in any letter case.
C21_NoRecordForNoTimeRows ==
    \A i \in DOMAIN tb_emitted :
        (~tb_rows[i].time.missing /\ tb_rows[i].time.chars \in NoTimeCells)
            => /\ ~RecordOfRow(i)
               /\ tb_pc = "returned" /\ Len(tb_rows) = 1 => tb_students = <<>>
C21_Witness ==
    /\ TabularDone
    /\ Len(tb_rows) = 3 /\ Len(tb_emitted) = 3
    /\ tb_rows[2].id.chars = <<"C", "1">>
    /\ tb_rows[2].time.chars \in NoTimeCells /\ Len(tb_rows[2].time.chars) > 27
    /\ tb_emitted = <<"record", "skipped", "record">>
    /\ Len(tb_students) = 2

\* C22: a row gives a record only if its id cell, trimmed, is a non-empty run
\* of digits with at most one letter before it; an id with two or more letters
\* before the digits gives none.
C22_AtMostOnePrefixLetter ==
    \A i \in DOMAIN tb_emitted :
        RecordOfRow(i) =>
            LET id == Strip(tb_rows[i].id.chars) IN
                \/ IsDigitStr(id)
                \/ /\ Len(id) >= 2
                   /\ IsUpper(id[1]) \/ IsLower(id[1])
                   /\ IsDigitStr(Tail(id))

\* C23: every record the tabular extraction gives has extra_time_per_hour
\* greater than zero.
C23_ExtraTimePositive ==
    \A i \in DOMAIN tb_students : tb_students[i].extra_time_per_hour > 0

\* every character of text from position a to position b is in set
C24_AllIn(text, a, b, set) == \A i \in a..b : text[i] \in set
\* where the parts of the name/number pattern can end or start in text: the
\* first name that starts at s, the surname after a first name that ends at
\* e1, the surname that starts at p, the seven digits after a surname that
\* ends at e2
C24_NameEnds(text, s) == {e1 \in s..Len(text) : C24_AllIn(text, s, e1, WordChars)}
C24_SurnameStarts(text, e1) ==
    {p \in (e1 + 1)..Len(text) :
        C24_AllIn(text, e1 + 1, p - 1, Whitespace) /\ text[p] \in UpperChars}
C24_SurnameEnds(text, p) ==
    {e2 \in (p + 1)..Len(text) : C24_AllIn(text, p + 1, e2, SurnameChars)}
C24_NumberStarts(text, e2) ==
    {q \in (e2 + 1)..(Len(text) - 6) :
        C24_AllIn(text, e2 + 1, q - 1, Whitespace) /\ C24_AllIn(text, q, q + 6, Digits)}
\* every way the name/number pattern is in text
C24_NameMatches(text) ==
    UNION {UNION {UNION {UNION {{[s |-> s, e1 |-> e1, p |-> p, e2 |-> e2, q |-> q] :
                                    q \in C24_NumberStarts(text, e2)} :
                                e2 \in C24_SurnameEnds(text, p)} :
                         p \in C24_SurnameStarts(text, e1)} :
                  e1 \in C24_NameEnds(text, s)} :
           s \in DOMAIN text}
\* m is tried before n: it starts further left, or has the longer first
\* name, or the shorter surname
C24_Before(m, n) ==
    \/ m.s < n.s
    \/ m.s = n.s /\ m.e1 > n.e1
    \/ m.s = n.s /\ m.e1 = n.e1 /\ m.e2 <= n.e2
\* every way 'Extra time N min(s) per hour' is in text: where it starts and
\* how many digits N has
C24_ExtraMatches(text) ==
    {m \in (DOMAIN text) \X (DOMAIN text) :
        LET p == m[1] + Len(ExtraTimeHead) IN
            /\ LiteralAt(text, m[1], ExtraTimeHead)
            /\ p + m[2] - 1 <= Len(text)
            /\ C24_AllIn(text, p, p + m[2] - 1, Digits)
            /\ \/ LiteralAt(text, p + m[2], ExtraTimeMin \o ExtraTimeTail)
               \/ LiteralAt(text, p + m[2], ExtraTimeMin \o <<"s">> \o ExtraTimeTail)}

\* C24: extract_student_info_from_pdf returns a Student exactly when both the
\* name/number pattern and 'Extra time N min(s) per hour' occur in the
\* normalised text; the Student then has the groups of the first name/number
\* match and N; when one of the two is missing it returns None, and its except
\* clause is not entered.
C24_RecordIffBothPatterns ==
    (tx_pc = "returned" /\ tx_readable) =>
        LET names == C24_NameMatches(tx_text)
            extras == C24_ExtraMatches(tx_text)
        IN  /\ ~tx_error_logged
            /\ Len(tx_result) <= 1
            /\ tx_result # <<>> <=> (names # {} /\ extras # {})
            /\ tx_result # <<>> =>
                  \E m \in names : \E x \in extras :
                      /\ \A n \in names : C24_Before(m, n)
                      /\ \A y \in extras : x[1] <= y[1]
                      /\ tx_result[1].name = StrOf(SubSeq(tx_text, m.s, m.e1))
                      /\ tx_result[1].surname = StrOf(SubSeq(tx_text, m.p, m.e2))
                      /\ tx_result[1].student_number = StrOf(SubSeq(tx_text, m.q, m.q + 6))
                      /\ tx_result[1].extra_time_per_hour =
                             ParseInt(SubSeq(tx_text, x[1] + Len(ExtraTimeHead),
                                             x[1] + Len(ExtraTimeHead) + x[2] - 1))
C24_Witness ==
    /\ tx_pc = "returned" /\ tx_readable
    /\ Len(tx_pages) = 2 /\ tx_pages[2] = OtherBlock
    /\ \E i \in DOMAIN tx_pages[1] : tx_pages[1][i] = "\n"
    /\ tx_result = <<Student("Jo", "DOE", "1234567", 15, None)>>
\* a document that lacks one of the two gives None
C24_WitnessMissing ==
    /\ tx_pc = "returned" /\ tx_readable
    /\ C24_NameMatches(tx_text) # {} /\ C24_ExtraMatches(tx_text) = {}
    /\ tx_result = <<>>

\* C25: a row with missing cells costs only that row: the records of the
\* well-formed rows before and after it are in what the extraction returns.
C25_MalformedRowCostsOnlyItself ==
    TabularDone =>
        /\ (\E i \in DOMAIN tb_rows : tb_rows[i] = RowBefore)
              => \E j \in DOMAIN tb_students : tb_students[j].student_number = "3"
        /\ (\E i \in DOMAIN tb_rows : tb_rows[i] = RowAfter)
              => \E j \in DOMAIN tb_students : tb_students[j].student_number = "4"

\* C26: a failure to read the RAP CSV file as a whole is a failure of the pass
\* that the caller can tell from a readable file without records: the pass does
\* not go on (to its loop and its rewrite of the roster file) after it.
C26_ReadFailureStopsPass == read_failed => ~InPass

\* C27: the effective end date list_courses gives a course is the first
\* present of its end date, its term's end date, its enrollment term's end
\* date, and its creation date if it is concluded; it is absent when none
\* applies, never a boolean.
C27_EffectiveEndIsDateOrAbsent ==
    \A i \in DOMAIN lc_result :
        LET c == lc_result[i]
            present(v) == v.type = "str" /\ v.str # ""
        IN  /\ c.effective_end_at.type \in {"none", "str"}
            /\ c.effective_end_at =
                   IF present(c.end_at) THEN c.end_at
                   ELSE IF c.term.present /\ present(c.term.end_at) THEN c.term.end_at
                   ELSE IF c.enrollment_term.present /\ present(c.enrollment_term.end_at)
                        THEN c.enrollment_term.end_at
                   ELSE IF c.concluded = PyBool(TRUE) THEN c.created_at
                   ELSE PyNone

C30_PublishedOnly ==
    (la_pc = "returned" /\ la_published_only) =>
        \A i \in DOMAIN la_result : la_result[i].published = PyBool(TRUE)

====
